---- MODULE Spec2Model ----
(***************************************************************************)
(* A model of the NEAT genome algebra: the genome data model with its DAG  *)
(* queries and structural edits (core/src/genome/mod.rs), the mutation     *)
(* operators (core/src/genome/mutation.rs) and crossover                   *)
(* (src/genome/crossover/mod.rs).                                          *)
(*                                                                         *)
(* Node indices are 0-based as in the source; node_genes[i + 1] is the     *)
(* gene of node i.  Every random draw of the source (rand::random) is a    *)
(* parameter of the operator that draws it, and the action that applies    *)
(* the operator quantifies over it.  f64 weights and biases are drawn      *)
(* from small sets of integers: the code only copies, replaces and         *)
(* compares them.                                                          *)
(*                                                                         *)
(* On top of it: the innovation number (genome/genes/connection.rs), the   *)
(* genomic distance and its cache (core/src/speciation/distance.rs), the   *)
(* species set and its speciate (core/src/speciation/mod.rs) and the       *)
(* engine NEAT::start (core/src/neat/mod.rs), whose state is the variable  *)
(* neat.  Distances are kept in units of 1 / DistanceUnit and fitnesses in *)
(* units of ln 2, so that every quantity the engine compares is exact.     *)
(*                                                                         *)
(* The phenotype (core/src/network.rs) is the variable network: the        *)
(* Network compiled from a genome, whose forward pass computes expression  *)
(* terms over the inputs, so that equal terms stand for equal f64 values.  *)
(* SpecNetwork compiles and evaluates mutated genomes, SpecOrder queries   *)
(* the node order of genomes built with add_connection, and SpecFrame      *)
(* keeps in h the genome as it was right before each mutation.             *)
(***************************************************************************)
EXTENDS Integers, Sequences, FiniteSets, TLC

VARIABLES g, h, child, op, profile, neat, network

vars == <<g, h, child, op, profile, neat, network>>

(***************************************************************************)
(* Bounds of the model.  A behaviour fixes a profile when it starts: the   *)
(* shape the genome is constructed with, the number of hidden nodes it may *)
(* grow, and the values its random source yields: one value per draw in a  *)
(* structural profile, two per weight in a weighted profile, two per draw  *)
(* in a valued profile.                                                    *)
(***************************************************************************)
\* Hidden nodes a one-input, one-output genome may grow with one value per draw.
MaxHidden == 2
\* Hidden nodes a genome may grow otherwise.
MaxHiddenWide == 1

\* Connection genes a genome may hold when its methods are called directly.
MaxGenes == 4

Structural(inputs, outputs, hidden) ==
    [inputs |-> inputs, outputs |-> outputs, hidden |-> hidden,
     weights |-> {0}, biases |-> {0}, activations |-> {"Tanh"}]

Weighted(inputs, outputs, hidden) ==
    [inputs |-> inputs, outputs |-> outputs, hidden |-> hidden,
     weights |-> {0, 1}, biases |-> {0}, activations |-> {"Tanh"}]

Valued(inputs, outputs, hidden) ==
    [inputs |-> inputs, outputs |-> outputs, hidden |-> hidden,
     weights |-> {0, 1}, biases |-> {0, 1}, activations |-> {"Tanh", "Relu"}]

(***************************************************************************)
(* Option<T>.                                                              *)
(***************************************************************************)
None == [some |-> FALSE, val |-> <<>>]
Some(v) == [some |-> TRUE, val |-> v]

\* The indices 0 .. n-1 in ascending order, as (0..n).enumerate() yields them.
Indices(n) == [k \in 1..n |-> k - 1]

(***************************************************************************)
(* Genes.                                                                  *)
(***************************************************************************)
NodeGeneNew(kind, activation, bias) ==
    [kind |-> kind,
     activation |-> IF kind = "Input" THEN "Input" ELSE activation,
     bias |-> IF kind = "Input" THEN 0 ELSE bias]

ConnectionGeneNew(from, to, weight) ==
    [from |-> from, to |-> to, disabled |-> FALSE, weight |-> weight]

\* The pairing without its second summand: the sum of the endpoints alone.
innovation_number_without_second_part(c) ==
    ((c.from + c.to) * (c.from + c.to + 1)) \div 2

innovation_number(c) ==
    LET a == c.from
        b == c.to
        first_part == (a + b) * (a + b + 1)
        second_part == b
    IN (first_part \div 2) + second_part

(***************************************************************************)
(* Genome::new and Genome::empty.  acts and biases give the random draws   *)
(* of the output nodes, ws those of the connections, in creation order.    *)
(***************************************************************************)
InputAndOutputNodes(inputs, outputs, acts, biases) ==
    [k \in 1..(inputs + outputs) |->
        IF k <= inputs THEN NodeGeneNew("Input", "Input", 0)
        ELSE NodeGeneNew("Output", acts[k - inputs], biases[k - inputs])]

GenomeNew(inputs, outputs, acts, biases, ws) ==
    [inputs |-> inputs,
     outputs |-> outputs,
     connection_genes |->
        [k \in 1..(inputs * outputs) |->
            ConnectionGeneNew((k - 1) \div outputs,
                              inputs + ((k - 1) % outputs), ws[k])],
     node_genes |-> InputAndOutputNodes(inputs, outputs, acts, biases)]

GenomeEmpty(inputs, outputs) ==
    [inputs |-> inputs, outputs |-> outputs,
     connection_genes |-> <<>>, node_genes |-> <<>>]

NodeCount(G) == Len(G.node_genes)
ConnCount(G) == Len(G.connection_genes)
KindOf(G, i) == G.node_genes[i + 1].kind

(***************************************************************************)
(* Genome::calculate_node_order, node_order, node_order_with.              *)
(***************************************************************************)
RECURSIVE NodeOrderLoop(_, _, _)
NodeOrderLoop(G, connections, visited) ==
    LET Visited(i) == \E k \in 1..Len(visited) : visited[k] = i
        Ready(i) ==
            /\ ~Visited(i)
            /\ \A k \in 1..Len(connections) :
                  connections[k].to = i => Visited(connections[k].from)
        nodes_to_visit == SelectSeq(Indices(NodeCount(G)), Ready)
    IN IF Len(nodes_to_visit) = 0 THEN visited
       ELSE NodeOrderLoop(G, connections, visited \o nodes_to_visit)

calculate_node_order(G, additional_connections) ==
    LET Enabled(c) == ~c.disabled
        IsInput(i) == KindOf(G, i) = "Input"
        connections ==
            SelectSeq(G.connection_genes, Enabled) \o additional_connections
        visited ==
            NodeOrderLoop(G, connections, SelectSeq(Indices(NodeCount(G)), IsInput))
    IN IF Len(connections) = 0 THEN None
       ELSE IF Len(visited) # NodeCount(G) THEN None
       ELSE Some(visited)

node_order(G) == calculate_node_order(G, <<>>)

node_order_with(G, additional_connections) ==
    calculate_node_order(G, additional_connections)

(***************************************************************************)
(* Genome::calculate_node_distance_from_inputs.  The HashMap is a function *)
(* on the node indices with Absent for a missing key.  The relaxation      *)
(* never ends when a cycle of connections (disabled ones included) is      *)
(* reachable from an input: a distance beyond the node count shows it, and *)
(* the result is then marked diverged.                                     *)
(***************************************************************************)
Absent == -1

RECURSIVE RelaxConnections(_, _, _, _, _)
RelaxConnections(conns, i, potential_distance, distances, to_visit) ==
    IF Len(conns) = 0 THEN [d |-> distances, q |-> to_visit]
    ELSE LET c == Head(conns)
             node_index == c.to
             change ==
                 /\ c.from = i
                 /\ \/ distances[node_index] = Absent
                    \/ potential_distance > distances[node_index]
         IN IF change
            THEN RelaxConnections(Tail(conns), i, potential_distance,
                     [distances EXCEPT ![node_index] = potential_distance],
                     Append(to_visit, node_index))
            ELSE RelaxConnections(Tail(conns), i, potential_distance,
                     distances, to_visit)

RECURSIVE DistanceLoop(_, _, _)
DistanceLoop(G, distances, to_visit) ==
    IF Len(to_visit) = 0 THEN [diverged |-> FALSE, d |-> distances]
    ELSE LET i == Head(to_visit)
             source_distance == IF distances[i] = Absent THEN 0 ELSE distances[i]
             r == RelaxConnections(G.connection_genes, i, source_distance + 1,
                                   distances, Tail(to_visit))
         IN IF source_distance > NodeCount(G)
            THEN [diverged |-> TRUE, d |-> distances]
            ELSE DistanceLoop(G, r.d, r.q)

calculate_node_distance_from_inputs(G) ==
    LET IsInput(i) == KindOf(G, i) = "Input"
        distances ==
            [i \in 0..(NodeCount(G) - 1) |-> IF IsInput(i) THEN 0 ELSE Absent]
    IN DistanceLoop(G, distances, SelectSeq(Indices(NodeCount(G)), IsInput))

(***************************************************************************)
(* Genome::is_projecting_directly, is_projecting.                          *)
(***************************************************************************)
is_projecting_directly(G, source, target) ==
    \E k \in 1..ConnCount(G) :
        /\ ~G.connection_genes[k].disabled
        /\ G.connection_genes[k].from = source
        /\ G.connection_genes[k].to = target

RECURSIVE IsProjectingLoop(_, _, _, _)
IsProjectingLoop(G, target, visited_nodes, nodes_to_visit) ==
    IF Len(nodes_to_visit) = 0 THEN FALSE
    ELSE LET i == Head(nodes_to_visit)
             visited == visited_nodes \cup {i}
             Outgoing(c) == c.from = i /\ ~c.disabled /\ i \notin visited
             pushed == SelectSeq(G.connection_genes, Outgoing)
         IN IF is_projecting_directly(G, i, target) THEN TRUE
            ELSE IsProjectingLoop(G, target, visited,
                     Tail(nodes_to_visit) \o [k \in 1..Len(pushed) |-> pushed[k].to])

is_projecting(G, source, target) ==
    IsProjectingLoop(G, target, {}, <<source>>)

(***************************************************************************)
(* Two weakened forms of can_connect, without the is_recurrent test and    *)
(* without the tests of the node kinds.  The properties that rest on those *)
(* tests fail when can_connect is replaced by them.                        *)
(***************************************************************************)
can_connect_without_is_recurrent(G, from, to) ==
    LET is_from_output == KindOf(G, from) = "Output"
        is_to_input == KindOf(G, to) = "Input"
        distances == calculate_node_distance_from_inputs(G)
    IN IF distances.diverged THEN "hang"
       ELSE IF distances.d[from] = Absent THEN "panic"
       ELSE IF is_from_output \/ is_to_input THEN "false"
       ELSE IF is_projecting(G, from, to) THEN "false"
       ELSE "true"

can_connect_without_kinds(G, from, to) ==
    LET distances == calculate_node_distance_from_inputs(G)
        from_distance == distances.d[from]
        to_distance == distances.d[to]
        is_recurrent == to_distance # Absent /\ from_distance > to_distance
    IN IF distances.diverged THEN "hang"
       ELSE IF from_distance = Absent THEN "panic"
       ELSE IF is_recurrent THEN "false"
       ELSE IF is_projecting(G, from, to) THEN "false"
       ELSE "true"

(***************************************************************************)
(* Genome::can_connect.  "true" or "false" when it returns; "panic" when   *)
(* distances.get(&from).unwrap() finds no distance for `from`; "hang" when *)
(* the distance calculation never ends.  to_distance defaults to           *)
(* usize::MAX, which no from_distance exceeds.                             *)
(***************************************************************************)
can_connect(G, from, to) ==
    LET is_from_output == KindOf(G, from) = "Output"
        is_to_input == KindOf(G, to) = "Input"
        distances == calculate_node_distance_from_inputs(G)
        from_distance == distances.d[from]
        to_distance == distances.d[to]
        is_recurrent == to_distance # Absent /\ from_distance > to_distance
    IN IF distances.diverged THEN "hang"
       ELSE IF from_distance = Absent THEN "panic"
       ELSE IF is_from_output \/ is_to_input \/ is_recurrent THEN "false"
       ELSE IF is_projecting(G, from, to) THEN "false"
       ELSE "true"

(***************************************************************************)
(* Genome::add_connection, add_many_connections, disable_connection,       *)
(* disable_many_connections, add_node.  A call yields the genome it leaves *)
(* and res: "Ok" or "Err" as returned, or "panic" / "hang".  index is the  *)
(* returned usize.  weight is the draw of ConnectionGene::new.             *)
(***************************************************************************)
\* A search that never finds the gene (weakened form of FindConnection).
FindNoConnection(G, from, to) == None

FindConnection(G, from, to) ==
    LET Hit(k) == G.connection_genes[k + 1].from = from
                  /\ G.connection_genes[k + 1].to = to
        hits == SelectSeq(Indices(ConnCount(G)), Hit)
    IN IF Len(hits) = 0 THEN None ELSE Some(Head(hits))

\* Weakened forms of add_connection: without the can_connect test, and with
\* a re-enabled gene given the weight of a new gene.
Genome_add_connection_unchecked(G, from, to, weight) ==
    LET maybe_connection == FindConnection(G, from, to)
        after ==
            IF maybe_connection.some
            THEN [G EXCEPT !.connection_genes[maybe_connection.val + 1].disabled = FALSE]
            ELSE [G EXCEPT !.connection_genes =
                     Append(@, ConnectionGeneNew(from, to, weight))]
    IN [g |-> after, res |-> "Ok", index |-> ConnCount(after) - 1]

Genome_add_connection_new_weight(G, from, to, weight) ==
    LET cc == can_connect(G, from, to)
        maybe_connection == FindConnection(G, from, to)
        after ==
            IF maybe_connection.some
            THEN [G EXCEPT !.connection_genes[maybe_connection.val + 1] =
                     ConnectionGeneNew(from, to, weight)]
            ELSE [G EXCEPT !.connection_genes =
                     Append(@, ConnectionGeneNew(from, to, weight))]
    IN IF cc = "false" THEN [g |-> G, res |-> "Err", index |-> 0]
       ELSE IF cc # "true" THEN [g |-> G, res |-> cc, index |-> 0]
       ELSE [g |-> after, res |-> "Ok", index |-> ConnCount(after) - 1]

Genome_add_connection(G, from, to, weight) ==
    LET cc == can_connect(G, from, to)
        maybe_connection == FindConnection(G, from, to)
        after ==
            IF maybe_connection.some
            THEN [G EXCEPT !.connection_genes[maybe_connection.val + 1].disabled = FALSE]
            ELSE [G EXCEPT !.connection_genes =
                     Append(@, ConnectionGeneNew(from, to, weight))]
    IN IF cc = "false" THEN [g |-> G, res |-> "Err", index |-> 0]
       ELSE IF cc # "true" THEN [g |-> G, res |-> cc, index |-> 0]
       ELSE [g |-> after, res |-> "Ok", index |-> ConnCount(after) - 1]

\* params are the (from, to) pairs, ws the weight drawn for each.  The Results
\* are dropped by the only caller; a panic or a hang ends the whole call.
RECURSIVE Genome_add_many_connections(_, _, _)
Genome_add_many_connections(G, params, ws) ==
    IF Len(params) = 0 THEN [g |-> G, res |-> "Ok"]
    ELSE LET r == Genome_add_connection(G, Head(params)[1], Head(params)[2], Head(ws))
         IN IF r.res \in {"panic", "hang"} THEN [g |-> r.g, res |-> r.res]
            ELSE Genome_add_many_connections(r.g, Tail(params), Tail(ws))

Genome_disable_connection(G, index) ==
    [G EXCEPT !.connection_genes[index + 1].disabled = TRUE]

RECURSIVE Genome_disable_many_connections(_, _)
Genome_disable_many_connections(G, indexes) ==
    IF Len(indexes) = 0 THEN G
    ELSE Genome_disable_many_connections(
             Genome_disable_connection(G, Head(indexes)), Tail(indexes))

Genome_add_node(G, activation, bias) ==
    [g |-> [G EXCEPT !.node_genes = Append(@, NodeGeneNew("Hidden", activation, bias))],
     index |-> NodeCount(G)]

(***************************************************************************)
(* The mutation operators of mutation.rs.  `random` is the value of        *)
(* random::<usize>(); the element picked from a list of len candidates is  *)
(* the one at random % len, and the remainder panics when len is 0.  A     *)
(* mutation yields the genome it leaves and res: "ok" when it returns,     *)
(* "panic" or "hang" otherwise.                                            *)
(***************************************************************************)
\* The number of enabled connections out of node i, and into node i.
outgoing_count(G, i) ==
    Cardinality({k \in 1..ConnCount(G) :
        ~G.connection_genes[k].disabled /\ G.connection_genes[k].from = i})

incoming_count(G, i) ==
    Cardinality({k \in 1..ConnCount(G) :
        ~G.connection_genes[k].disabled /\ G.connection_genes[k].to = i})

\* The pairs (i, j), i # j, that no enabled gene connects, sorted and deduplicated.
unconnected_pairs(G) ==
    LET n == NodeCount(G)
        all == [k \in 1..(n * n) |-> <<(k - 1) \div n, (k - 1) % n>>]
        Free(p) == p[1] # p[2] /\ ~is_projecting_directly(G, p[1], p[2])
    IN SelectSeq(all, Free)

possible_connections(G) ==
    LET Allowed(p) == can_connect(G, p[1], p[2]) = "true"
    IN SelectSeq(unconnected_pairs(G), Allowed)

mutation_add_connection(G, random, weight) ==
    LET tried == unconnected_pairs(G)
        \* The ways the can_connect filter may fail to return for a tried pair.
        distances == calculate_node_distance_from_inputs(G)
        stopped ==
            IF Len(tried) = 0 THEN {}
            ELSE IF distances.diverged THEN {"hang"}
            ELSE IF \E k \in 1..Len(tried) : distances.d[tried[k][1]] = Absent
                 THEN {"panic"}
            ELSE {}
        possible == possible_connections(G)
        picked_connection == possible[(random % Len(possible)) + 1]
        r == Genome_add_connection(G, picked_connection[1], picked_connection[2], weight)
    IN IF "hang" \in stopped THEN [g |-> G, res |-> "hang"]
       ELSE IF "panic" \in stopped THEN [g |-> G, res |-> "panic"]
       ELSE IF Len(possible) = 0 THEN [g |-> G, res |-> "ok"]
       ELSE [g |-> r.g, res |-> IF r.res = "Ok" THEN "ok" ELSE "panic"]

\* Weakened form of eligible_indexes: every enabled connection is eligible.
enabled_indexes(G) ==
    LET Enabled(k) == ~G.connection_genes[k + 1].disabled
    IN SelectSeq(Indices(ConnCount(G)), Enabled)

\* Weakened form of eligible_indexes: only the source of the connection must
\* keep another enabled outgoing connection.
eligible_indexes_by_source(G) ==
    LET Eligible(k) ==
            LET c == G.connection_genes[k + 1]
            IN ~c.disabled /\ outgoing_count(G, c.from) > 1
    IN SelectSeq(Indices(ConnCount(G)), Eligible)

eligible_indexes(G) ==
    LET Eligible(k) ==
            LET c == G.connection_genes[k + 1]
            IN /\ ~c.disabled
               /\ outgoing_count(G, c.from) > 1
               /\ incoming_count(G, c.to) > 1
    IN SelectSeq(Indices(ConnCount(G)), Eligible)

mutation_disable_connection(G, random) ==
    LET eligible == eligible_indexes(G)
        index == eligible[(random % Len(eligible)) + 1]
    IN IF Len(eligible) = 0 THEN [g |-> G, res |-> "ok"]
       ELSE [g |-> Genome_disable_connection(G, index), res |-> "ok"]

enabled_connections(G) ==
    LET Enabled(k) == ~G.connection_genes[k + 1].disabled
    IN SelectSeq(Indices(ConnCount(G)), Enabled)

\* Weakened form of add_node: the gene into the new node keeps the weight
\* drawn for it instead of the weight of the picked connection.
mutation_add_node_fresh_weight(G, random, activation, bias, weight_in, weight_out) ==
    LET n == Genome_add_node(G, activation, bias)
        enabled == enabled_connections(n.g)
        picked_index == enabled[(random % Len(enabled)) + 1]
        picked_connection == n.g.connection_genes[picked_index + 1]
        disabled == Genome_disable_connection(n.g, picked_index)
        first == Genome_add_connection(disabled, picked_connection.from,
                                       n.index, weight_in)
        second == Genome_add_connection(first.g, n.index,
                                        picked_connection.to, weight_out)
    IN IF Len(enabled) = 0 THEN [g |-> n.g, res |-> "panic"]
       ELSE IF first.res # "Ok" \/ second.res # "Ok"
            THEN [g |-> second.g, res |-> "panic"]
       ELSE [g |-> second.g, res |-> "ok"]

mutation_add_node(G, random, activation, bias, weight_in, weight_out) ==
    LET n == Genome_add_node(G, activation, bias)
        new_node_index == n.index
        enabled == enabled_connections(n.g)
        picked_index == enabled[(random % Len(enabled)) + 1]
        picked_connection == n.g.connection_genes[picked_index + 1]
        disabled == Genome_disable_connection(n.g, picked_index)
        first == Genome_add_connection(disabled, picked_connection.from,
                                       new_node_index, weight_in)
        second == Genome_add_connection(first.g, new_node_index,
                                        picked_connection.to, weight_out)
        done == [second.g EXCEPT
                    !.connection_genes[first.index + 1].weight = picked_connection.weight]
    IN IF Len(enabled) = 0 THEN [g |-> n.g, res |-> "panic"]
       ELSE IF first.res # "Ok"
            THEN [g |-> first.g, res |-> IF first.res = "hang" THEN "hang" ELSE "panic"]
       ELSE IF second.res # "Ok"
            THEN [g |-> second.g, res |-> IF second.res = "hang" THEN "hang" ELSE "panic"]
       ELSE [g |-> done, res |-> "ok"]

hidden_nodes(G) ==
    LET Removable(i) ==
            /\ KindOf(G, i) = "Hidden"
            /\ incoming_count(G, i) > 0
            /\ outgoing_count(G, i) > 0
    IN SelectSeq(Indices(NodeCount(G)), Removable)

\* The (pred, succ) pairs bridging through node i that no enabled gene connects,
\* in the order of the flat_map over incoming and outgoing connections.
new_from_to_pairs(G, i) ==
    LET Incoming(c) == c.to = i /\ ~c.disabled
        Outgoing(c) == c.from = i /\ ~c.disabled
        incoming == SelectSeq(G.connection_genes, Incoming)
        outgoing == SelectSeq(G.connection_genes, Outgoing)
        m == Len(outgoing)
        pairs == [k \in 1..(Len(incoming) * m) |->
                     <<incoming[((k - 1) \div m) + 1].from, outgoing[((k - 1) % m) + 1].to>>]
        Missing(p) == ~is_projecting_directly(G, p[1], p[2])
    IN SelectSeq(pairs, Missing)

\* Weakened form of remove_node: the connections of the picked node are
\* disabled and no bypassing connection is added.
mutation_remove_node_without_bypass(G, random, ws) ==
    LET hidden == hidden_nodes(G)
        picked_node_index == hidden[(random % Len(hidden)) + 1]
        Incident(k) == \/ G.connection_genes[k + 1].from = picked_node_index
                       \/ G.connection_genes[k + 1].to = picked_node_index
    IN IF Len(hidden) = 0 THEN [g |-> G, res |-> "ok"]
       ELSE [g |-> Genome_disable_many_connections(
                       G, SelectSeq(Indices(ConnCount(G)), Incident)),
             res |-> "ok"]

mutation_remove_node(G, random, ws) ==
    LET hidden == hidden_nodes(G)
        picked_node_index == hidden[(random % Len(hidden)) + 1]
        added == Genome_add_many_connections(G, new_from_to_pairs(G, picked_node_index), ws)
        Incident(k) == \/ added.g.connection_genes[k + 1].from = picked_node_index
                       \/ added.g.connection_genes[k + 1].to = picked_node_index
        connection_indexes_to_delete == SelectSeq(Indices(ConnCount(added.g)), Incident)
    IN IF Len(hidden) = 0 THEN [g |-> G, res |-> "ok"]
       ELSE IF added.res # "Ok" THEN [g |-> added.g, res |-> added.res]
       ELSE [g |-> Genome_disable_many_connections(added.g, connection_indexes_to_delete),
             res |-> "ok"]

\* new_weight is the clamped result of either branch (perturbed or resampled).
change_weight(G, random, new_weight) ==
    LET index == random % ConnCount(G)
    IN IF ConnCount(G) = 0 THEN [g |-> G, res |-> "panic"]
       ELSE [g |-> [G EXCEPT !.connection_genes[index + 1].weight = new_weight],
             res |-> "ok"]

non_input_nodes(G) ==
    LET NotInput(i) == KindOf(G, i) # "Input"
    IN SelectSeq(Indices(NodeCount(G)), NotInput)

change_bias(G, random, new_bias) ==
    LET eligible == non_input_nodes(G)
        index == eligible[(random % Len(eligible)) + 1]
    IN IF Len(eligible) = 0 THEN [g |-> G, res |-> "panic"]
       ELSE [g |-> [G EXCEPT !.node_genes[index + 1].bias = new_bias], res |-> "ok"]

change_activation(G, random, new_activation) ==
    LET eligible == non_input_nodes(G)
        index == eligible[(random % Len(eligible)) + 1]
    IN IF Len(eligible) = 0 THEN [g |-> G, res |-> "panic"]
       ELSE [g |-> [G EXCEPT !.node_genes[index + 1].activation = new_activation],
             res |-> "ok"]

(***************************************************************************)
(* crossover.  conn_draws[k] and node_draws[k] tell whether the draw       *)
(* random::<f64>() < 0.5 made for the k-th connection gene of parent A, or *)
(* for the k-th node, came out true.  child is the recombined genome and   *)
(* res what crossover returns for it: "Some" or "None", or "panic".        *)
(***************************************************************************)
Max(a, b) == IF a < b THEN b ELSE a

\* The body of crossover once parent_a and parent_b are settled.
recombine(parent_a, parent_b, conn_draws, node_draws) ==
    LET Counterpart(connection) ==
            LET Same(k) == innovation_number(parent_b.connection_genes[k])
                               = innovation_number(connection)
                hits == SelectSeq([k \in 1..ConnCount(parent_b) |-> k], Same)
            IN IF Len(hits) = 0 THEN None
               ELSE Some(parent_b.connection_genes[Head(hits)])
        child_connection_genes ==
            [k \in 1..ConnCount(parent_a) |->
                LET connection == parent_a.connection_genes[k]
                    maybe_counterpart_connection == Counterpart(connection)
                IN IF maybe_counterpart_connection.some
                   THEN IF conn_draws[k] THEN connection
                        ELSE maybe_counterpart_connection.val
                   ELSE connection]
        RECURSIVE MaxIndex(_, _)
        MaxIndex(conns, max) ==
            IF Len(conns) = 0 THEN max
            ELSE MaxIndex(Tail(conns), Max(Max(max, Head(conns).from), Head(conns).to))
        required_node_count == 1 + MaxIndex(child_connection_genes, 0)
        out_of_bounds ==
            \E k \in 1..required_node_count :
                k > NodeCount(parent_a) /\ k > NodeCount(parent_b)
        child_node_genes ==
            [k \in 1..required_node_count |->
                IF k <= NodeCount(parent_a) /\ k <= NodeCount(parent_b)
                THEN IF node_draws[k] THEN parent_a.node_genes[k]
                     ELSE parent_b.node_genes[k]
                ELSE IF k <= NodeCount(parent_a) THEN parent_a.node_genes[k]
                ELSE parent_b.node_genes[k]]
        recombined ==
            [GenomeEmpty(parent_a.inputs, parent_a.outputs) EXCEPT
                !.connection_genes = child_connection_genes,
                !.node_genes = child_node_genes]
    IN IF out_of_bounds
       THEN [child |-> GenomeEmpty(parent_a.inputs, parent_a.outputs), res |-> "panic"]
       ELSE [child |-> recombined,
             res |-> IF node_order(recombined).some THEN "Some" ELSE "None"]

\* Weakened form of crossover: the parents are never swapped.
crossover_without_swap(a, fitness_a, b, fitness_b, conn_draws, node_draws) ==
    recombine(a, b, conn_draws, node_draws)

crossover(a, fitness_a, b, fitness_b, conn_draws, node_draws) ==
    \* Parent A will always be the fitter one
    IF fitness_a < fitness_b
    THEN recombine(b, a, conn_draws, node_draws)
    ELSE recombine(a, b, conn_draws, node_draws)

(***************************************************************************)
(* The state.  g is the genome the operations act on; h is a second genome *)
(* (the other parent of a crossover); child is the genome the last         *)
(* crossover recombined, and the genome without nodes when no offspring is *)
(* held; op records the last operation: its kind, how it ended (res) and   *)
(* its arguments (x, y).  After a panic or a hang no further operation     *)
(* runs.                                                                   *)
(***************************************************************************)
\* The residues random::<usize>() % len can take; one draw when len is 0.
Draws(len) == 0..(IF len = 0 THEN 0 ELSE len - 1)

Running == op.res \notin {"panic", "hang"}

MayGrow(G) == NodeCount(G) < G.inputs + G.outputs + profile.hidden

NewGenomes(p) ==
    {GenomeNew(p.inputs, p.outputs, acts, biases, ws) :
         acts \in [1..p.outputs -> p.activations],
         biases \in [1..p.outputs -> p.biases],
         ws \in [1..(p.inputs * p.outputs) -> p.weights]}

\* The evolution engine before NEAT::new: the genome algebra runs without it.
NoEngine == [pc |-> "none"]

MutationProfiles ==
    {Structural(1, 1, MaxHidden),
     Structural(2, 1, MaxHiddenWide), Structural(1, 2, MaxHiddenWide),
     Structural(1, 0, MaxHiddenWide), Structural(0, 1, MaxHiddenWide),
     Valued(1, 1, MaxHiddenWide)}

Init ==
    /\ profile \in MutationProfiles
    /\ g \in NewGenomes(profile)
    /\ h = g
    /\ child = GenomeEmpty(0, 0)
    /\ op = [kind |-> "new", res |-> "ok", x |-> 0, y |-> 0]
    /\ neat = NoEngine
    /\ network = None

\* g.mutate(kind) leaves the genome and the result r.
Mutated(kind, r) ==
    /\ g' = r.g
    /\ op' = [kind |-> kind, res |-> r.res, x |-> 0, y |-> 0]
    /\ UNCHANGED <<h, child, profile, neat, network>>

AddConnection ==
    /\ Running
    /\ \E random \in Draws(Len(possible_connections(g))), weight \in profile.weights :
          Mutated("AddConnection", mutation_add_connection(g, random, weight))

RemoveConnection ==
    /\ Running
    /\ \E random \in Draws(Len(eligible_indexes(g))) :
          Mutated("RemoveConnection", mutation_disable_connection(g, random))

AddNode ==
    /\ Running
    /\ MayGrow(g)
    /\ \E random \in Draws(Len(enabled_connections(g))),
          activation \in profile.activations, bias \in profile.biases,
          weight_in \in profile.weights, weight_out \in profile.weights :
          Mutated("AddNode",
                  mutation_add_node(g, random, activation, bias, weight_in, weight_out))

RemoveNode ==
    /\ Running
    /\ \E random \in Draws(Len(hidden_nodes(g))) :
          LET count == IF Len(hidden_nodes(g)) = 0 THEN 0
                       ELSE Len(new_from_to_pairs(g, hidden_nodes(g)[random + 1]))
          IN \E ws \in [1..count -> profile.weights] :
                Mutated("RemoveNode", mutation_remove_node(g, random, ws))

ModifyWeight ==
    /\ Running
    /\ \E random \in Draws(ConnCount(g)), new_weight \in profile.weights :
          Mutated("ModifyWeight", change_weight(g, random, new_weight))

ModifyBias ==
    /\ Running
    /\ \E random \in Draws(Len(non_input_nodes(g))), new_bias \in profile.biases :
          Mutated("ModifyBias", change_bias(g, random, new_bias))

ModifyActivation ==
    /\ Running
    /\ \E random \in Draws(Len(non_input_nodes(g))),
          new_activation \in profile.activations :
          Mutated("ModifyActivation", change_activation(g, random, new_activation))

\* mutate(kind, g) for each MutationKind.
mutate ==
    \/ AddConnection
    \/ RemoveConnection
    \/ AddNode
    \/ RemoveNode
    \/ ModifyWeight
    \/ ModifyBias
    \/ ModifyActivation

Next == mutate

Spec == Init /\ [][Next]_vars

(***************************************************************************)
(* The methods of Genome called directly, as mutation.rs and the tests of  *)
(* genome/mod.rs call them.  Every call site passes two distinct nodes to  *)
(* add_connection (mutation.rs:60, 167-168, 220-236).                      *)
(***************************************************************************)
\* Genome::empty and the node genes the tests push: inputs, outputs, no connection.
GenomeOfNodes(inputs, outputs, acts, biases) ==
    [GenomeEmpty(inputs, outputs) EXCEPT
        !.node_genes = InputAndOutputNodes(inputs, outputs, acts, biases)]

NodeOnlyGenomes(p) ==
    {GenomeOfNodes(p.inputs, p.outputs, acts, biases) :
         acts \in [1..p.outputs -> p.activations],
         biases \in [1..p.outputs -> p.biases]}

InitApi ==
    /\ \/ /\ profile \in {Structural(1, 1, MaxHidden), Structural(2, 1, MaxHiddenWide)}
          /\ g \in NodeOnlyGenomes(profile)
       \/ /\ profile \in {Weighted(2, 2, 0), Weighted(1, 1, MaxHiddenWide)}
          /\ g \in NewGenomes(profile)
    /\ h = g
    /\ child = GenomeEmpty(0, 0)
    /\ op = [kind |-> "new", res |-> "ok", x |-> 0, y |-> 0]
    /\ neat = NoEngine
    /\ network = None

CallAddNode ==
    /\ Running
    /\ MayGrow(g)
    /\ \E activation \in profile.activations, bias \in profile.biases :
          LET r == Genome_add_node(g, activation, bias)
          IN /\ g' = r.g
             /\ op' = [kind |-> "add_node", res |-> "ok", x |-> r.index, y |-> 0]
    /\ UNCHANGED <<h, child, profile, neat, network>>

CallAddConnection ==
    /\ Running
    /\ \E from \in 0..(NodeCount(g) - 1), to \in 0..(NodeCount(g) - 1),
          weight \in profile.weights :
          /\ from # to
          /\ FindConnection(g, from, to).some \/ ConnCount(g) < MaxGenes
          /\ LET r == Genome_add_connection(g, from, to, weight)
             IN /\ g' = r.g
                /\ op' = [kind |-> "add_connection", res |-> r.res, x |-> from, y |-> to]
    /\ UNCHANGED <<h, child, profile, neat, network>>

CallDisableConnection ==
    /\ Running
    /\ \E index \in 0..(ConnCount(g) - 1) :
          /\ g' = Genome_disable_connection(g, index)
          /\ op' = [kind |-> "disable_connection", res |-> "ok", x |-> index, y |-> 0]
    /\ UNCHANGED <<h, child, profile, neat, network>>

NextApi ==
    \/ CallAddNode
    \/ CallAddConnection
    \/ CallDisableConnection

SpecApi == InitApi /\ [][NextApi]_vars

(***************************************************************************)
(* Reproduction as NEAT::start drives it: a genome is cloned into the      *)
(* population (h), two genomes are crossed over, and the offspring, when   *)
(* there is one, is taken on and mutated in turn; otherwise it is dropped. *)
(* The offspring is taken on or dropped before anything else happens.      *)
(***************************************************************************)
\* Fitness values; the code only compares them.
Fitnesses == {0, 1}

Crossed == op.kind \in {"crossover_g_h", "crossover_h_g"}

CrossoverProfiles ==
    {Structural(1, 1, MaxHiddenWide), Valued(1, 1, 0),
     Weighted(2, 1, 0), Structural(1, 2, 0)}

InitX ==
    /\ profile \in CrossoverProfiles
    /\ g \in NewGenomes(profile)
    /\ h = g
    /\ child = GenomeEmpty(0, 0)
    /\ op = [kind |-> "new", res |-> "ok", x |-> 0, y |-> 0]
    /\ neat = NoEngine
    /\ network = None

Clone ==
    /\ Running
    /\ ~Crossed
    /\ h' = g
    /\ op' = [kind |-> "clone", res |-> "ok", x |-> 0, y |-> 0]
    /\ UNCHANGED <<g, child, profile, neat, network>>

\* The connection genes of a for which crossover(a, b) or crossover(b, a)
\* makes a draw: those with a gene of the same innovation number in b.
DrawnAt(a, b) ==
    {k \in 1..ConnCount(a) :
        \E m \in 1..ConnCount(b) :
            innovation_number(b.connection_genes[m]) = innovation_number(a.connection_genes[k])}

Min(a, b) == IF a < b THEN a ELSE b

\* crossover((first, x), (second, y)) with first, second being g, h or h, g.
Crossover ==
    /\ Running
    /\ ~Crossed
    /\ \E g_first \in BOOLEAN, x \in Fitnesses, y \in Fitnesses :
          LET first == IF g_first THEN g ELSE h
              second == IF g_first THEN h ELSE g
              conns == DrawnAt(g, h) \cup DrawnAt(h, g)
              nodes == 1..Min(NodeCount(g), NodeCount(h))
          IN \E conn_draws \in [conns -> BOOLEAN], node_draws \in [nodes -> BOOLEAN] :
                LET r == crossover(first, x, second, y, conn_draws, node_draws)
                IN /\ child' = r.child
                   /\ op' = [kind |-> IF g_first THEN "crossover_g_h" ELSE "crossover_h_g",
                             res |-> r.res, x |-> x, y |-> y]
    /\ UNCHANGED <<g, h, profile, neat, network>>

\* The offspring joins the population and is the genome mutated next.
TakeOffspring ==
    /\ Crossed
    /\ op.res = "Some"
    /\ g' = child
    /\ child' = GenomeEmpty(0, 0)
    /\ op' = [kind |-> "offspring", res |-> "ok", x |-> 0, y |-> 0]
    /\ UNCHANGED <<h, profile, neat, network>>

DropOffspring ==
    /\ Crossed
    /\ op.res \in {"Some", "None"}
    /\ child' = GenomeEmpty(0, 0)
    /\ op' = [kind |-> "dropped", res |-> "ok", x |-> 0, y |-> 0]
    /\ UNCHANGED <<g, h, profile, neat, network>>

NextX ==
    \/ ~Crossed /\ mutate
    \/ Clone
    \/ Crossover
    \/ TakeOffspring
    \/ DropOffspring

SpecX == InitX /\ [][NextX]_vars

(***************************************************************************)
(* Graph notions the properties are stated with, defined on the genes      *)
(* alone.                                                                  *)
(***************************************************************************)
EnabledEdges(G) ==
    {<<G.connection_genes[k].from, G.connection_genes[k].to>> :
        k \in {j \in 1..ConnCount(G) : ~G.connection_genes[j].disabled}}

RECURSIVE TransitiveClosure(_)
TransitiveClosure(R) ==
    LET R2 == R \cup {<<p[1][1], p[2][2]>> : p \in {q \in R \X R : q[1][2] = q[2][1]}}
    IN IF R2 = R THEN R ELSE TransitiveClosure(R2)

\* A directed path of one or more enabled connections leads from a to b.
EnabledPath(G, a, b) == <<a, b>> \in TransitiveClosure(EnabledEdges(G))

Acyclic(G) == \A e \in TransitiveClosure(EnabledEdges(G)) : e[1] # e[2]

HiddenToHidden(G) ==
    \E e \in EnabledEdges(G) : KindOf(G, e[1]) = "Hidden" /\ KindOf(G, e[2]) = "Hidden"

(***************************************************************************)
(* C1: from Genome::new(inputs, outputs) with inputs >= 1 and outputs >= 1,*)
(* after any sequence of mutation operators the graph of the non-disabled  *)
(* connections is acyclic and node_order() returns Some.                   *)
(***************************************************************************)
C1_MutationsKeepDag ==
    (g.inputs >= 1 /\ g.outputs >= 1) =>
        (Acyclic(g) /\ node_order(g).some)

\* A mutated genome in which one hidden node feeds another.
C1_Witness ==
    /\ g.inputs >= 1 /\ g.outputs >= 1
    /\ op.kind = "AddConnection"
    /\ HiddenToHidden(g)

(***************************************************************************)
(* C7: a mutation operator whose precondition fails returns normally and   *)
(* leaves the genome unchanged: AddConnection, RemoveConnection and        *)
(* RemoveNode with no candidate, AddNode with no enabled connection,       *)
(* ModifyWeight with no connection, ModifyBias and ModifyActivation with   *)
(* no non-input node.                                                      *)
(***************************************************************************)
PreconditionFails(kind, G) ==
    \/ kind = "AddConnection" /\ Len(possible_connections(G)) = 0
    \/ kind = "RemoveConnection" /\ Len(eligible_indexes(G)) = 0
    \/ kind = "RemoveNode" /\ Len(hidden_nodes(G)) = 0
    \/ kind = "AddNode" /\ EnabledEdges(G) = {}
    \/ kind = "ModifyWeight" /\ ConnCount(G) = 0
    \/ kind \in {"ModifyBias", "ModifyActivation"}
          /\ \A i \in 0..(NodeCount(G) - 1) : KindOf(G, i) = "Input"

C7_FailedPreconditionIsNoOp ==
    [][PreconditionFails(op'.kind, g) => (op'.res = "ok" /\ g' = g)]_vars

(***************************************************************************)
(* C8: from Genome::new(1, 1), after any sequence of mutation operators at *)
(* least one connection gene is enabled.                                   *)
(***************************************************************************)
C8_SomeConnectionEnabled ==
    (g.inputs = 1 /\ g.outputs = 1) => EnabledEdges(g) # {}

\* RemoveNode has left a genome of Genome::new(1, 1) with disabled genes.
C8_Witness ==
    /\ g.inputs = 1 /\ g.outputs = 1
    /\ op.kind = "RemoveNode"
    /\ \E k \in 1..ConnCount(g) : g.connection_genes[k].disabled
    /\ Cardinality(EnabledEdges(g)) = 1

(***************************************************************************)
(* C4: add_connection(from, to) returns Err and leaves the node genes and  *)
(* the connection genes unchanged whenever an enabled directed path from   *)
(* `to` to `from` already exists.                                          *)
(***************************************************************************)
C4_CycleClosingEdgeRejected ==
    [][(op'.kind = "add_connection" /\ EnabledPath(g, op'.y, op'.x))
          => (op'.res = "Err" /\ g' = g)]_vars

\* The chain I -> H1 -> H2 -> O, where add_connection(H2, H1) was rejected.
C4_Witness ==
    /\ op = [kind |-> "add_connection", res |-> "Err", x |-> 3, y |-> 2]
    /\ g.inputs = 1 /\ g.outputs = 1 /\ NodeCount(g) = 4
    /\ EnabledEdges(g) = {<<0, 2>>, <<2, 3>>, <<3, 1>>}

(***************************************************************************)
(* C5: disable_connection on a connection gene (from, to) followed by      *)
(* add_connection(from, to) succeeds and restores the same gene: the       *)
(* number of connection genes is unchanged, the gene is enabled again and  *)
(* its weight is the weight it had before it was disabled.                 *)
(* disable_connection(index) is recorded as op.x = index, and              *)
(* add_connection(from, to) as op.x = from, op.y = to.                     *)
(***************************************************************************)
C5_ReenableRestoresGene ==
    [][/\ op'.kind = "disable_connection" =>
            /\ ConnCount(g') = ConnCount(g)
            /\ g'.connection_genes[op'.x + 1] =
                   [g.connection_genes[op'.x + 1] EXCEPT !.disabled = TRUE]
       /\ op.kind = "disable_connection" /\ op'.kind = "add_connection"
          /\ op'.x = g.connection_genes[op.x + 1].from
          /\ op'.y = g.connection_genes[op.x + 1].to =>
            /\ op'.res = "Ok"
            /\ ConnCount(g') = ConnCount(g)
            /\ g'.connection_genes[op.x + 1] =
                   [g.connection_genes[op.x + 1] EXCEPT !.disabled = FALSE]
      ]_vars

\* On Genome::new(2, 2), add_connection(0, 2) has succeeded: the pair has a
\* gene from the start, so that gene had been disabled and is enabled again.
C5_Witness ==
    /\ g.inputs = 2 /\ g.outputs = 2
    /\ op = [kind |-> "add_connection", res |-> "Ok", x |-> 0, y |-> 2]
    /\ ConnCount(g) = 4
    /\ \E k \in 1..ConnCount(g) :
          g.connection_genes[k] = [ConnectionGeneNew(0, 2, 1) EXCEPT !.disabled = FALSE]

(***************************************************************************)
(* C6: node_order() returns Some if and only if the graph of the           *)
(* non-disabled connections is acyclic; a genome with nodes but no enabled *)
(* connection yields Some.                                                 *)
(***************************************************************************)
C6_NodeOrderIffAcyclic == node_order(g).some <=> Acyclic(g)

(***************************************************************************)
(* Crossover: the parents of the crossover recorded in op, and the         *)
(* innovation numbers and gene pairs of a genome.                          *)
(***************************************************************************)
FirstArgument == IF op.kind = "crossover_g_h" THEN g ELSE h

SecondArgument == IF op.kind = "crossover_g_h" THEN h ELSE g

\* The parent of higher fitness, the first argument on a tie.
FitterParent == IF op.y > op.x THEN SecondArgument ELSE FirstArgument

OtherParent == IF op.y > op.x THEN FirstArgument ELSE SecondArgument

Genes(G) == {G.connection_genes[k] : k \in 1..ConnCount(G)}

Innovations(G) == {innovation_number(c) : c \in Genes(G)}

UniquePairs(G) ==
    \A i, j \in 1..ConnCount(G) :
        (G.connection_genes[i].from = G.connection_genes[j].from
            /\ G.connection_genes[i].to = G.connection_genes[j].to) => i = j

(***************************************************************************)
(* C2: in every genome reached by mutations and crossovers (the parents    *)
(* and the recombined child) at most one connection gene, enabled or       *)
(* disabled, exists for an ordered pair (from, to).                        *)
(***************************************************************************)
C2_OneGenePerPair == UniquePairs(g) /\ UniquePairs(h) /\ UniquePairs(child)

\* A returned child of three genes that is neither of its parents, one of
\* which holds a gene that a mutation disabled or enabled again.
C2_Witness ==
    /\ Crossed /\ op.res = "Some"
    /\ ConnCount(child) = 3
    /\ child.connection_genes # g.connection_genes
    /\ child.connection_genes # h.connection_genes
    /\ ConnCount(g) = 3 /\ ConnCount(h) = 3

(***************************************************************************)
(* C3: in every genome reached by mutations and crossovers no enabled      *)
(* connection leads into an Input node or out of an Output node.           *)
(***************************************************************************)
KindsRespected(G) ==
    \A e \in EnabledEdges(G) :
        KindOf(G, e[2]) # "Input" /\ KindOf(G, e[1]) # "Output"

C3_NoEdgeIntoInputOrOutOfOutput ==
    KindsRespected(g) /\ KindsRespected(h) /\ KindsRespected(child)

\* A returned child with an enabled connection into its hidden node and one
\* out of it.
C3_Witness ==
    /\ Crossed /\ op.res = "Some"
    /\ \E e \in EnabledEdges(child), f \in EnabledEdges(child) :
          /\ KindOf(child, e[2]) = "Hidden"
          /\ f[1] = e[2]
          /\ KindOf(child, f[2]) = "Output"

(***************************************************************************)
(* C9: crossover returns None only if the recombined child's graph of      *)
(* enabled connections contains a cycle.                                   *)
(***************************************************************************)
C9_NoneOnlyIfCyclic == (Crossed /\ op.res = "None") => ~Acyclic(child)

(***************************************************************************)
(* C10: with A the parent of higher fitness (the first argument on a tie)  *)
(* and B the other one, the returned child's set of innovation numbers is  *)
(* A's set, and each gene of the child is the gene of that innovation      *)
(* number in A or in B.                                                    *)
(***************************************************************************)
C10_ChildGenesAreFitterParents ==
    (Crossed /\ op.res = "Some") =>
        /\ Innovations(child) = Innovations(FitterParent)
        /\ \A c \in Genes(child) :
              \E p \in Genes(FitterParent) \cup Genes(OtherParent) :
                  innovation_number(p) = innovation_number(c) /\ p = c

\* The second argument is the fitter parent and has genes the first one
\* lacks; the child holds a gene taken from the less fit parent.
C10_Witness ==
    /\ Crossed /\ op.res = "Some" /\ op.x < op.y
    /\ ConnCount(FitterParent) > ConnCount(OtherParent)
    /\ \E c \in Genes(child) : c \notin Genes(FitterParent)

(***************************************************************************)
(* The innovation number as a function of the endpoints alone.  A          *)
(* behaviour of SpecInnovation evaluates the innovation number of one      *)
(* connection gene after another, the endpoints drawn from                 *)
(* 0..MaxEndpoint, far below the range where the product overflows usize.  *)
(***************************************************************************)
\* Largest node index of a connection gene whose innovation number is taken.
MaxEndpoint == 12

InitInnovation ==
    /\ profile = Structural(0, 0, 0)
    /\ g = GenomeEmpty(0, 0)
    /\ h = g
    /\ child = g
    /\ op = [kind |-> "new", res |-> "ok", x |-> 0, y |-> 0, n |-> 0]
    /\ neat = NoEngine
    /\ network = None

InnovationNumber ==
    \E from \in 0..MaxEndpoint, to \in 0..MaxEndpoint :
        /\ op' = [kind |-> "innovation_number", res |-> "ok", x |-> from, y |-> to,
                  n |-> innovation_number(ConnectionGeneNew(from, to, 0))]
        /\ UNCHANGED <<g, h, child, profile, neat, network>>

NextInnovation == InnovationNumber

SpecInnovation == InitInnovation /\ [][NextInnovation]_vars

(***************************************************************************)
(* C11: the innovation number is injective on 0..MaxEndpoint: a            *)
(* connection (from', to') has the innovation number of (from, to) only if *)
(* from' = from and to' = to.                                              *)
(***************************************************************************)
C11_InnovationNumberInjective ==
    op.kind = "innovation_number" =>
        \A from \in 0..MaxEndpoint, to \in 0..MaxEndpoint :
            innovation_number(ConnectionGeneNew(from, to, 0)) = op.n
                => (from = op.x /\ to = op.y)

\* The number of (2, 5) was taken: (5, 2) has the same sum of endpoints,
\* and (0, 8) lies on the next diagonal; both have other numbers.
C11_Witness ==
    /\ op.kind = "innovation_number" /\ op.x = 2 /\ op.y = 5
    /\ op.n = 33
    /\ innovation_number(ConnectionGeneNew(5, 2, 0)) # op.n
    /\ innovation_number(ConnectionGeneNew(0, 8, 0)) # op.n

(***************************************************************************)
(* The evolution engine: Configuration (core/src/neat/configuration.rs),   *)
(* the genomic distance (core/src/speciation/distance.rs), the species     *)
(* set (core/src/speciation/mod.rs) and the generational driver            *)
(* (core/src/neat/mod.rs).                                                 *)
(*                                                                         *)
(* f64 values are exact rationals here.  A ratio of the configuration is   *)
(* a record [num, den].  Distances, their coefficients and the             *)
(* compatibility threshold are integers in units of 1 / DistanceUnit.      *)
(* Fitness values are integers in units of ln 2 / FitnessUnit, so that     *)
(* e^fitness is a power of two.                                            *)
(***************************************************************************)
\* 1.0 of a distance: 100 for the hundredths of the coefficients times 12,
\* which every number of connection genes up to 4 divides.
DistanceUnit == 1200

Ratio(num, den) == [num |-> num, den |-> den]

\* floor(n as f64 * ratio) as usize
FloorTimes(n, ratio) == (n * ratio.num) \div ratio.den

\* The outcomes of random::<f64>() < ratio, random being uniform in [0, 1).
RandomBelow(ratio) ==
    {b \in BOOLEAN : (b => ratio.num > 0) /\ (~b => ratio.num < ratio.den)}

DefaultMutationKinds ==
    <<<<"AddConnection", 10>>, <<"RemoveConnection", 10>>, <<"AddNode", 10>>,
      <<"RemoveNode", 10>>, <<"ModifyWeight", 10>>, <<"ModifyBias", 10>>,
      <<"ModifyActivation", 10>>, <<"ModifyAggregation", 10>>>>

\* Configuration::default()
DefaultConfiguration ==
    [max_generations |-> 1000,
     population_size |-> 150,
     elitism |-> Ratio(1, 10),
     elitism_species |-> 3,
     stagnation_after |-> 50,
     mutation_rate |-> Ratio(1, 2),
     survival_ratio |-> Ratio(1, 2),
     mutation_kinds |-> DefaultMutationKinds,
     fitness_goal |-> None,
     distance_connection_disjoint_coefficient |-> DistanceUnit,
     distance_connection_weight_coeficcient |-> DistanceUnit \div 2,
     distance_connection_disabled_coefficient |-> DistanceUnit \div 2,
     distance_node_bias_coefficient |-> (33 * DistanceUnit) \div 100,
     distance_node_activation_coefficient |-> (33 * DistanceUnit) \div 100,
     distance_node_aggregation_coefficient |-> (33 * DistanceUnit) \div 100,
     compatibility_threshold |-> 3 * DistanceUnit]

(***************************************************************************)
(* GenomicDistanceCache.  The key of a pair of genomes is built from the   *)
(* two hashes, the larger first: the unordered pair of the genomes, two    *)
(* genomes of equal content having equal hashes.                           *)
(***************************************************************************)
GenomicDistanceCache_new == [cache |-> <<>>]

make_key(a, b) == {a, b}

\* GenomicDistanceCache::get: the cached value, 0. when the key is absent.
GenomicDistanceCache_get(distances, a, b) ==
    LET distance_key == make_key(a, b)
    IN IF distance_key \in DOMAIN distances.cache
       THEN distances.cache[distance_key]
       ELSE 0

Abs(x) == IF x < 0 THEN -x ELSE x

RECURSIVE SumOf(_)
SumOf(s) == IF Len(s) = 0 THEN 0 ELSE Head(s) + SumOf(Tail(s))

\* The node genes of core/src/genome/genes/node.rs carry no aggregation:
\* every node aggregates the same way.
AggregationOf(node) == "Sum"

\* GenomicDistanceCache::distance, for genomes one of which has a
\* connection gene.
GenomicDistanceCache_distance(conf, a, b) ==
    LET max_connection_genes == Max(ConnCount(a), ConnCount(b))
        chain == a.connection_genes \o b.connection_genes
        Occurrences(i) ==
            Cardinality({k \in 1..Len(chain) : innovation_number(chain[k]) = i})
        numbers == {innovation_number(chain[k]) : k \in 1..Len(chain)}
        disjoint_connections == {i \in numbers : Occurrences(i) = 1}
        common_connections == numbers \ disjoint_connections
        Find(G, i) ==
            G.connection_genes[
                CHOOSE k \in 1..ConnCount(G) :
                    /\ innovation_number(G.connection_genes[k]) = i
                    /\ \A m \in 1..(k - 1) : innovation_number(G.connection_genes[m]) # i]
        disjoint_factor ==
            Cardinality(disjoint_connections) * conf.distance_connection_disjoint_coefficient
        ConnectionDistance(i) ==
            LET connection_a == Find(a, i)
                connection_b == Find(b, i)
            IN (IF connection_a.disabled # connection_b.disabled
                THEN conf.distance_connection_disabled_coefficient ELSE 0)
               + Abs(connection_a.weight - connection_b.weight)
                     * conf.distance_connection_weight_coeficcient
        RECURSIVE SumConnections(_)
        SumConnections(S) ==
            IF S = {} THEN 0
            ELSE LET i == CHOOSE x \in S : TRUE
                 IN ConnectionDistance(i) + SumConnections(S \ {i})
        connections_difference_factor == SumConnections(common_connections)
        NodeDistance(k) ==
            LET node_a == a.node_genes[k]
                node_b == b.node_genes[k]
            IN (IF node_a.activation # node_b.activation
                THEN conf.distance_node_activation_coefficient ELSE 0)
               + (IF AggregationOf(node_a) # AggregationOf(node_b)
                  THEN conf.distance_node_aggregation_coefficient ELSE 0)
               + Abs(node_a.bias - node_b.bias) * conf.distance_node_bias_coefficient
        nodes_difference_factor ==
            SumOf([k \in 1..Min(NodeCount(a), NodeCount(b)) |-> NodeDistance(k)])
    IN nodes_difference_factor
       + (connections_difference_factor + disjoint_factor) \div max_connection_genes

(***************************************************************************)
(* Species and SpeciesSet.  A HashMap is a function; the order in which a  *)
(* HashMap or a HashSet is iterated is arbitrary, so an operator whose     *)
(* result depends on it yields the set of results of all orders.           *)
(***************************************************************************)
Species_new(generation, representative, members) ==
    [created |-> generation,
     last_improved |-> generation,
     representative |-> representative,
     members |-> members,
     fitness |-> None,
     adjusted_fitness |-> None,
     fitness_history |-> <<>>]

SpeciesSet_new == [species |-> <<>>]

Insert(map, key, value) ==
    [k \in DOMAIN map \cup {key} |-> IF k = key THEN value ELSE map[k]]

Remove(map, keys) == [k \in DOMAIN map \ keys |-> map[k]]

RECURSIVE MaxOf(_)
MaxOf(S) ==
    LET x == CHOOSE y \in S : TRUE
    IN IF S = {x} THEN x ELSE Max(x, MaxOf(S \ {x}))

RECURSIVE MinOf(_)
MinOf(S) ==
    LET x == CHOOSE y \in S : TRUE
    IN IF S = {x} THEN x ELSE Min(x, MinOf(S \ {x}))

\* Step 1 for one species: the genome of the current generation closest to
\* the old representative among those below the threshold, the first one
\* in current_genomes on a tie.
NewRepresentative(conf, distances, species, current_genomes, all_genomes) ==
    LET genome_representative == all_genomes[species.representative]
        DistanceAt(k) ==
            GenomicDistanceCache_get(distances, all_genomes[current_genomes[k]],
                                     genome_representative)
        close == {k \in 1..Len(current_genomes) :
                      DistanceAt(k) < conf.compatibility_threshold}
        closest == {k \in close : \A m \in close : DistanceAt(k) <= DistanceAt(m)}
    IN IF close = {} THEN None ELSE Some(current_genomes[MinOf(closest)])

\* Step 1: existing species take a new representative or go.
Reseated(conf, distances, old_species, current_genomes, all_genomes) ==
    LET Found(id) ==
            NewRepresentative(conf, distances, old_species[id],
                              current_genomes, all_genomes)
    IN [id \in {i \in DOMAIN old_species : Found(i).some} |->
           [old_species[id] EXCEPT !.representative = Found(id).val,
                                   !.members = <<Found(id).val>>]]

\* Step 2 for one genome: the species it may join, or the species map with
\* a brand new species.
Placed(conf, distances, generation, new_species, genome_id, all_genomes) ==
    LET genome == all_genomes[genome_id]
        DistanceTo(id) ==
            GenomicDistanceCache_get(distances, genome,
                                     all_genomes[new_species[id].representative])
        close == {id \in DOMAIN new_species :
                      DistanceTo(id) < conf.compatibility_threshold}
        closest == {id \in close : \A m \in close : DistanceTo(id) <= DistanceTo(m)}
        next_species_id ==
            IF DOMAIN new_species = {} THEN 0 ELSE MaxOf(DOMAIN new_species)
    IN IF close # {}
       THEN {[new_species EXCEPT ![id].members = Append(@, genome_id)] : id \in closest}
       ELSE {Insert(new_species, next_species_id + 1,
                    Species_new(generation, genome_id, <<genome_id>>))}

\* Step 2: the unspeciated genomes, in any order.
RECURSIVE PlacedAll(_, _, _, _, _, _)
PlacedAll(conf, distances, generation, new_species, unspeciated_genomes, all_genomes) ==
    IF unspeciated_genomes = {} THEN {new_species}
    ELSE UNION {
             UNION {PlacedAll(conf, distances, generation, next,
                              unspeciated_genomes \ {genome_id}, all_genomes) :
                        next \in Placed(conf, distances, generation, new_species,
                                        genome_id, all_genomes)} :
                 genome_id \in unspeciated_genomes}

\* Mean fitness of the members, last_improved and the history.
WithFitness(species, generation, fitnesses) ==
    LET member_fitnesses ==
            [k \in 1..Len(species.members) |-> fitnesses[species.members[k]]]
        species_mean_fitness == SumOf(member_fitnesses) \div Len(member_fitnesses)
        history == species.fitness_history
        improved ==
            \A k \in 1..Len(history) : species_mean_fitness > history[k]
    IN [species EXCEPT
           !.last_improved = IF improved THEN generation ELSE @,
           !.fitness = Some(species_mean_fitness),
           !.fitness_history = Append(@, species_mean_fitness)]

\* e^fitness of every species over a common power of two: fitness is in
\* units of ln 2.
Exp(new_species, id) ==
    LET lowest == MinOf({new_species[i].fitness.val : i \in DOMAIN new_species})
    IN 2 ^ (new_species[id].fitness.val - lowest)

RECURSIVE ExpSum(_, _)
ExpSum(new_species, ids) ==
    IF ids = {} THEN 0
    ELSE LET id == CHOOSE i \in ids : TRUE
         IN Exp(new_species, id) + ExpSum(new_species, ids \ {id})

WithAdjustedFitness(new_species) ==
    [id \in DOMAIN new_species |->
        [new_species[id] EXCEPT
            !.adjusted_fitness =
                Some(Ratio(Exp(new_species, id), ExpSum(new_species, DOMAIN new_species)))]]

\* a > b for two ratios
Above(a, b) == a.num * b.den > b.num * a.den

\* Step 5: the ids `take(n)` yields from the stagnated species sorted by
\* adjusted fitness, the highest first, species of equal adjusted fitness
\* in the order the HashMap yielded them.
Taken(new_species, stagnated, n) ==
    {taken \in SUBSET stagnated :
        /\ Cardinality(taken) = Min(n, Cardinality(stagnated))
        /\ \A t \in taken, k \in stagnated \ taken :
              ~Above(new_species[k].adjusted_fitness.val,
                     new_species[t].adjusted_fitness.val)}

\* SpeciesSet::speciate: the possible outcomes.  `before` is new_species
\* when the removal of stagnated species starts.  new_species.len() -
\* elitism_species is a usize subtraction: below zero it panics where
\* overflow checks are compiled in and wraps to a huge count elsewhere.
SpeciesSet_speciate(self, conf, generation, current_genomes, all_genomes, fitnesses) ==
    LET distances == GenomicDistanceCache_new
        current_set == {current_genomes[k] : k \in 1..Len(current_genomes)}
        reseated == Reseated(conf, distances, self.species, current_genomes, all_genomes)
        unspeciated_genomes ==
            current_set \ {reseated[id].representative : id \in DOMAIN reseated}
        Finished(placed) ==
            LET with_fitness ==
                    [id \in DOMAIN placed |-> WithFitness(placed[id], generation, fitnesses)]
                new_species == WithAdjustedFitness(with_fitness)
                stagnated ==
                    {id \in DOMAIN new_species :
                        generation - new_species[id].last_improved >= conf.stagnation_after}
                len == Cardinality(DOMAIN new_species)
                Pruned(n) ==
                    {[res |-> "ok", before |-> new_species,
                      species |-> Remove(new_species, taken)] :
                         taken \in Taken(new_species, stagnated, n)}
            IN IF len >= conf.elitism_species
               THEN Pruned(len - conf.elitism_species)
               ELSE Pruned(len) \cup
                    {[res |-> "panic", before |-> new_species, species |-> self.species]}
    IN UNION {Finished(placed) :
                  placed \in PlacedAll(conf, distances, generation, reseated,
                                       unspeciated_genomes, all_genomes)}

(***************************************************************************)
(* GenomeBank: the genomes of the current generation and of the previous   *)
(* one by GenomeId, and the fitnesses of the current generation.  A        *)
(* GenomeId is assigned when a genome is constructed, from a counter of    *)
(* the process, and a clone keeps it.                                      *)
(***************************************************************************)
GenomeBank_new == [genomes |-> <<>>, previous_genomes |-> <<>>, fitnesses |-> <<>>]

GenomeBank_clear(bank) ==
    [genomes |-> <<>>, previous_genomes |-> bank.genomes, fitnesses |-> <<>>]

\* add_genome for each genome of a list, the ids taken from first_id on.
GenomeBank_add_new_genomes(bank, first_id, new_genomes) ==
    [bank EXCEPT !.genomes =
        [id \in DOMAIN @ \cup {first_id + k - 1 : k \in 1..Len(new_genomes)} |->
            IF id \in DOMAIN @ THEN @[id] ELSE new_genomes[id - first_id + 1]]]

(***************************************************************************)
(* The driver.  The fitness function is a function of the network; here    *)
(* it is one of the functions of the weight of the first connection gene.  *)
(***************************************************************************)
\* Network::from(genome) panics when node_order() is None.
Compiles(genome) == node_order(genome).some

\* NEAT::test_fitness: res is "panic" when a genome does not compile.
test_fitness(bank, fitness_fn) ==
    IF \E id \in DOMAIN bank.genomes : ~Compiles(bank.genomes[id])
    THEN [res |-> "panic", genomes |-> bank]
    ELSE [res |-> "ok",
          genomes |->
              [bank EXCEPT !.fitnesses =
                  [id \in DOMAIN bank.genomes |->
                      fitness_fn[bank.genomes[id].connection_genes[1].weight]]]]

\* NEAT::get_best: the fold starts from (0, 0.) and replaces its pair on a
\* strictly higher fitness; the HashMap yields the fitnesses in any order.
\* res is "panic" when the bank holds no genome of the id found.
get_best(bank) ==
    LET fitnesses == bank.fitnesses
        above == {id \in DOMAIN fitnesses : fitnesses[id] > 0}
        found ==
            IF above = {} THEN {[id |-> 0, fitness |-> 0]}
            ELSE {[id |-> id, fitness |-> fitnesses[id]] :
                     id \in {i \in above : \A m \in above : fitnesses[m] <= fitnesses[i]}}
    IN {[res |-> IF best.id \in DOMAIN bank.genomes THEN "ok" ELSE "panic",
         id |-> best.id, fitness |-> best.fitness] : best \in found}

\* NEAT::pick_mutation: WeightedAliasIndex::new fails on an empty table and
\* on a table of zero weights, and the unwrap panics.
pick_mutation(conf) ==
    LET kinds == conf.mutation_kinds
        drawn == {k \in 1..Len(kinds) : kinds[k][2] > 0}
    IN IF drawn = {} THEN {[res |-> "panic", kind |-> "none"]}
       ELSE {[res |-> "ok", kind |-> kinds[k][1]] : k \in drawn}

\* child.mutate(kind): the genomes it may leave, by the draws of the
\* mutation operator, for the kinds that add no gene to the genome (the
\* engine runs on genomes that grow no hidden node) and for the kind the
\* match has no arm for.
Mutations(G, kind, p) ==
    CASE kind = "RemoveConnection" ->
            {mutation_disable_connection(G, random) :
                random \in Draws(Len(eligible_indexes(G)))}
      [] kind = "ModifyWeight" ->
            {change_weight(G, random, new_weight) :
                random \in Draws(ConnCount(G)), new_weight \in p.weights}
      [] kind = "ModifyBias" ->
            {change_bias(G, random, new_bias) :
                random \in Draws(Len(non_input_nodes(G))), new_bias \in p.biases}
      [] kind = "ModifyActivation" ->
            {change_activation(G, random, new_activation) :
                random \in Draws(Len(non_input_nodes(G))),
                new_activation \in p.activations}
      [] kind = "ModifyAggregation" -> {[g |-> G, res |-> "panic"]}

\* member_ids_and_fitnesses after sort_by: the higher fitness first, members
\* of equal fitness in the order of the member list.
SortedMembers(members, fitnesses) ==
    LET Before(m, k) ==
            \/ fitnesses[members[m]] > fitnesses[members[k]]
            \/ fitnesses[members[m]] = fitnesses[members[k]] /\ m < k
        Rank(k) == 1 + Cardinality({m \in 1..Len(members) : Before(m, k)})
    IN [r \in 1..Len(members) |->
           members[CHOOSE k \in 1..Len(members) : Rank(k) = r]]

\* One non-elite slot of a species: two parents drawn from the survivors,
\* crossover, and a mutation of the child with probability mutation_rate.
\* res is "Some" with the child, "None" when crossover returned None, and
\* "panic" or "hang" when a step did not return.
SlotOutcomes(conf, bank, survivors, p) ==
    IF Len(survivors) = 0 THEN {[res |-> "panic", child |-> GenomeEmpty(0, 0)]}
    ELSE UNION {
        LET parent_a == bank.genomes[survivors[a + 1]]
            parent_b == bank.genomes[survivors[b + 1]]
            fitness_a == bank.fitnesses[survivors[a + 1]]
            fitness_b == bank.fitnesses[survivors[b + 1]]
            conns == DrawnAt(parent_a, parent_b) \cup DrawnAt(parent_b, parent_a)
            nodes == 1..Min(NodeCount(parent_a), NodeCount(parent_b))
            crossed ==
                {crossover(parent_a, fitness_a, parent_b, fitness_b, conn_draws, node_draws) :
                    conn_draws \in [conns -> BOOLEAN], node_draws \in [nodes -> BOOLEAN]}
            Mutated_(c) ==
                UNION {IF ~mutated THEN {[res |-> "Some", child |-> c.child]}
                       ELSE UNION {IF picked.res = "panic"
                                   THEN {[res |-> "panic", child |-> c.child]}
                                   ELSE {[res |-> IF m.res = "ok" THEN "Some" ELSE m.res,
                                          child |-> m.g] :
                                             m \in Mutations(c.child, picked.kind, p)} :
                                      picked \in pick_mutation(conf)} :
                          mutated \in RandomBelow(conf.mutation_rate)}
        IN UNION {IF c.res = "Some" THEN Mutated_(c)
                  ELSE {[res |-> c.res, child |-> GenomeEmpty(0, 0)]} : c \in crossed} :
            a \in Draws(Len(survivors)), b \in Draws(Len(survivors))}

\* elites_count of a species: the floor of the elitism share of its
\* offspring count, itself the floor of its share of the population.
ElitesCount(conf, species) ==
    FloorTimes(FloorTimes(conf.population_size, species.adjusted_fitness.val),
               conf.elitism)

\* member_ids_and_fitnesses of a species after sort_by and truncate: the
\* first floor(len * survival_ratio) members, the fittest first.
Survivors(conf, bank, species) ==
    LET member_ids == SortedMembers(species.members, bank.fitnesses)
        surviving_count == FloorTimes(Len(member_ids), conf.survival_ratio)
    IN SubSeq(member_ids, 1, Min(surviving_count, Len(member_ids)))

\* The offspring of one species (the body of the flat_map of NEAT::start):
\* the ids of the elites cloned and the children of the non-elite slots.
SpeciesOffspring(conf, bank, species, p) ==
    LET offspring_count == FloorTimes(conf.population_size, species.adjusted_fitness.val)
        elites_count == ElitesCount(conf, species)
        nonelites_count == offspring_count - elites_count
        survivors == Survivors(conf, bank, species)
        IsSome(outcome) == outcome.res = "Some"
        Children(slots) ==
            LET kept == SelectSeq(slots, IsSome)
            IN [k \in 1..Len(kept) |-> kept[k].child]
        Stopped(slots) == {slots[k].res : k \in 1..Len(slots)} \ {"Some", "None"}
    IN IF elites_count > Len(survivors)
       THEN {[res |-> "panic", elites |-> <<>>, children |-> <<>>]}
       ELSE {[res |-> IF Stopped(slots) = {} THEN "ok"
                      ELSE IF "panic" \in Stopped(slots) THEN "panic" ELSE "hang",
              elites |-> SubSeq(survivors, 1, elites_count),
              children |-> Children(slots)] :
                 slots \in [1..nonelites_count -> SlotOutcomes(conf, bank, survivors, p)]}

\* The offspring of all species, one species after the other.
RECURSIVE Offspring(_, _, _, _, _)
Offspring(conf, bank, all_species, ids, p) ==
    IF ids = {} THEN {[res |-> "ok", elites |-> <<>>, children |-> <<>>]}
    ELSE LET id == MinOf(ids)
         IN {[res |-> IF first.res # "ok" THEN first.res ELSE rest.res,
              elites |-> first.elites \o rest.elites,
              children |-> first.children \o rest.children] :
                 first \in SpeciesOffspring(conf, bank, all_species[id], p),
                 rest \in Offspring(conf, bank, all_species, ids \ {id}, p)}

\* self.genomes.clear() and add_genome for every offspring: an elite is a
\* clone and keeps its id, a child of crossover has a new one.
Replaced(bank, next_genome_id, offspring) ==
    LET cleared == GenomeBank_clear(bank)
        elite_ids == {offspring.elites[k] : k \in 1..Len(offspring.elites)}
        with_elites ==
            [cleared EXCEPT !.genomes = [id \in elite_ids |-> bank.genomes[id]]]
    IN GenomeBank_add_new_genomes(with_elites, next_genome_id, offspring.children)

\* The sequences that list each element of S once.
Orders(S) ==
    {s \in [1..Cardinality(S) -> S] : \A i, j \in 1..Cardinality(S) : s[i] = s[j] => i = j}

(***************************************************************************)
(* NEAT::start as a state machine of the variable neat: pc is the position *)
(* in start ("new" before the call, "loop" at the head of the generational *)
(* loop, "reproduce" after speciate, "break" when the goal was reached,    *)
(* then "returned", or "panic" / "hang" when a step did not return);       *)
(* generation is the loop variable i, 0 before the loop.                   *)
(***************************************************************************)
\* Genomes in a population and generations of a run.
MaxPopulation == 3
MaxGenerations == 2

RECURSIVE LcmUpTo(_, _)
LcmUpTo(n, m) ==
    IF \A k \in 1..n : m % k = 0 THEN m ELSE LcmUpTo(n, m + 1)

\* Fitness values are multiples of FitnessUnit * ln 2, so that the mean
\* fitness of up to MaxPopulation members is a multiple of ln 2.
FitnessUnit == LcmUpTo(MaxPopulation, 1)

FitnessValues == {-FitnessUnit, 0, FitnessUnit}

\* Configuration::default() scaled to the bounds, the mutation table
\* holding the one kind that leaves the shape of a genome alone.
SmallConfiguration ==
    [DefaultConfiguration EXCEPT
        !.population_size = MaxPopulation,
        !.max_generations = MaxGenerations,
        !.stagnation_after = 1,
        !.mutation_kinds = <<<<"ModifyWeight", 10>>>>]

\* Every genome its own species, every species stagnant at once.
ApartConfiguration ==
    [SmallConfiguration EXCEPT
        !.compatibility_threshold = 0,
        !.stagnation_after = 0,
        !.survival_ratio = Ratio(1, 1)]

Configurations ==
    {SmallConfiguration,
     [SmallConfiguration EXCEPT !.elitism = Ratio(1, 2), !.elitism_species = 1],
     [SmallConfiguration EXCEPT !.population_size = 0],
     [SmallConfiguration EXCEPT !.mutation_kinds = <<>>]}
    \cup {[SmallConfiguration EXCEPT !.fitness_goal = Some(goal)] :
              goal \in {-FitnessUnit, FitnessUnit}}
    \cup {[ApartConfiguration EXCEPT !.elitism_species = n] : n \in {1, 2}}
    \cup {[ApartConfiguration EXCEPT !.survival_ratio = Ratio(1, 2)],
          [ApartConfiguration EXCEPT !.elitism = Ratio(1, 1)]}

NEAT_new(configuration, fitness_fn, next_genome_id) ==
    [pc |-> "new",
     configuration |-> configuration,
     fitness_fn |-> fitness_fn,
     genomes |-> GenomeBank_new,
     species_set |-> SpeciesSet_new,
     next_genome_id |-> next_genome_id,
     generation |-> 0,
     before |-> <<>>,
     result |-> None]

InitNEAT ==
    /\ profile = Weighted(1, 1, 0)
    /\ g = GenomeEmpty(0, 0)
    /\ h = g
    /\ child = g
    /\ op = [kind |-> "new", res |-> "ok", x |-> 0, y |-> 0]
    /\ \E configuration \in Configurations,
          fitness_fn \in [profile.weights -> FitnessValues],
          next_genome_id \in {0, 1} :
          neat = NEAT_new(configuration, fitness_fn, next_genome_id)
    /\ network = None

\* start, up to the loop: the initial population and its fitnesses.
Start ==
    /\ neat.pc = "new"
    /\ \E new_genomes \in [1..neat.configuration.population_size -> NewGenomes(profile)] :
          LET bank == GenomeBank_add_new_genomes(neat.genomes, neat.next_genome_id,
                                                 new_genomes)
              tested == test_fitness(bank, neat.fitness_fn)
          IN /\ neat' = [neat EXCEPT
                            !.pc = IF tested.res = "ok" THEN "loop" ELSE "panic",
                            !.genomes = tested.genomes,
                            !.next_genome_id = @ + Len(new_genomes)]
             /\ op' = [kind |-> "start", res |-> tested.res, x |-> 0, y |-> 0]
    /\ UNCHANGED <<g, h, child, profile, network>>

\* The head of the loop body: species_set.speciate(i, ...).
Speciate ==
    /\ neat.pc = "loop"
    /\ neat.generation < neat.configuration.max_generations
    /\ \E current_genome_ids \in Orders(DOMAIN neat.genomes.genomes) :
          LET i == neat.generation + 1
              bank == neat.genomes
              previous_and_current_genomes ==
                  [id \in DOMAIN bank.genomes \cup DOMAIN bank.previous_genomes |->
                      IF id \in DOMAIN bank.previous_genomes
                      THEN bank.previous_genomes[id] ELSE bank.genomes[id]]
          IN \E outcome \in SpeciesSet_speciate(neat.species_set, neat.configuration, i,
                                                current_genome_ids,
                                                previous_and_current_genomes,
                                                bank.fitnesses) :
                /\ neat' = [neat EXCEPT
                               !.pc = IF outcome.res = "ok" THEN "reproduce" ELSE "panic",
                               !.generation = i,
                               !.before = outcome.before,
                               !.species_set.species = outcome.species]
                /\ op' = [kind |-> "speciate", res |-> outcome.res, x |-> i, y |-> 0]
    /\ UNCHANGED <<g, h, child, profile, network>>

\* The rest of the loop body: offspring, the new population, its
\* fitnesses, and the goal.  op is the last step that ran: "reproduce" up
\* to the new population, "test_fitness", or "get_best" of the goal check.
Reproduce ==
    /\ neat.pc = "reproduce"
    /\ \E offspring \in Offspring(neat.configuration, neat.genomes,
                                  neat.species_set.species,
                                  DOMAIN neat.species_set.species, profile) :
          LET bank == Replaced(neat.genomes, neat.next_genome_id, offspring)
              tested == test_fitness(bank, neat.fitness_fn)
              goal == neat.configuration.fitness_goal
              Done(pc, last) ==
                  /\ neat' = [neat EXCEPT
                                 !.pc = pc,
                                 !.genomes = tested.genomes,
                                 !.next_genome_id = @ + Len(offspring.children)]
                  /\ op' = [kind |-> last,
                            res |-> IF pc = "panic" THEN "panic" ELSE "ok",
                            x |-> neat.generation, y |-> 0]
          IN IF offspring.res # "ok"
             THEN /\ neat' = [neat EXCEPT !.pc = offspring.res]
                  /\ op' = [kind |-> "reproduce", res |-> offspring.res,
                            x |-> neat.generation, y |-> 0]
             ELSE IF tested.res # "ok" THEN Done("panic", "test_fitness")
             ELSE IF ~goal.some THEN Done("loop", "reproduce")
             ELSE \E best \in get_best(tested.genomes) :
                     Done(IF best.res # "ok" THEN "panic"
                          ELSE IF best.fitness >= goal.val THEN "break"
                          ELSE "loop", "get_best")
    /\ UNCHANGED <<g, h, child, profile, network>>

\* After the loop: get_best and Network::from(best_genome).
Return ==
    /\ \/ neat.pc = "break"
       \/ neat.pc = "loop" /\ neat.generation >= neat.configuration.max_generations
    /\ \E best \in get_best(neat.genomes) :
          LET returns == best.res = "ok" /\ Compiles(neat.genomes.genomes[best.id])
          IN /\ neat' = [neat EXCEPT
                            !.pc = IF returns THEN "returned" ELSE "panic",
                            !.result = IF returns
                                       THEN Some([id |-> best.id, fitness |-> best.fitness])
                                       ELSE None]
             /\ op' = [kind |-> "return", res |-> IF returns THEN "ok" ELSE "panic",
                       x |-> neat.generation, y |-> 0]
    /\ UNCHANGED <<g, h, child, profile, network>>

NextNEAT == Start \/ Speciate \/ Reproduce \/ Return

SpecNEAT == InitNEAT /\ [][NextNEAT]_vars

(***************************************************************************)
(* Properties of speciation and of the driver.                             *)
(***************************************************************************)
\* speciate has returned in the generation under way.
Speciated == neat.pc = "reproduce"

SpeciesIds == DOMAIN neat.species_set.species

MembersOf(species) == {species.members[k] : k \in 1..Len(species.members)}

CurrentGenomeIds == DOMAIN neat.genomes.genomes

\* The species of the set that list the genome as a member.
SpeciesOf(genome_id) ==
    {id \in SpeciesIds : genome_id \in MembersOf(neat.species_set.species[id])}

(***************************************************************************)
(* C12: after speciate returns, every genome id of the current generation  *)
(* is a member of exactly one species, and is listed once in it.           *)
(***************************************************************************)
C12_EveryGenomeInOneSpecies ==
    Speciated =>
        /\ \A genome_id \in CurrentGenomeIds : Cardinality(SpeciesOf(genome_id)) = 1
        /\ \A id \in SpeciesIds :
              LET members == neat.species_set.species[id].members
              IN \A i, j \in 1..Len(members) : members[i] = members[j] => i = j

\* The genomes speciate is handed: the current and the previous generation.
BankGenomes ==
    {neat.genomes.genomes[id] : id \in DOMAIN neat.genomes.genomes}
        \cup {neat.genomes.previous_genomes[id] : id \in DOMAIN neat.genomes.previous_genomes}

\* The distance cache of a speciate call; get leaves it as new() made it.
Distances == GenomicDistanceCache_new

(***************************************************************************)
(* C13: for every pair of genomes of the bank, get(a, b) is the value      *)
(* distance(a, b) computes, and get(b, a) is the same value.               *)
(***************************************************************************)
C13_GetReturnsDistance ==
    \A a \in BankGenomes, b \in BankGenomes :
        /\ GenomicDistanceCache_get(Distances, a, b)
               = GenomicDistanceCache_distance(neat.configuration, a, b)
        /\ GenomicDistanceCache_get(Distances, a, b)
               = GenomicDistanceCache_get(Distances, b, a)

\* The genome of an id handed to speciate.
GenomeOf(genome_id) ==
    IF genome_id \in DOMAIN neat.genomes.genomes
    THEN neat.genomes.genomes[genome_id]
    ELSE neat.genomes.previous_genomes[genome_id]

\* D(a, b) of the representatives or members a and b.
D(a, b) == GenomicDistanceCache_distance(neat.configuration, GenomeOf(a), GenomeOf(b))

(***************************************************************************)
(* C14: a genome is compatible with a representative iff their distance D  *)
(* is at most compatibility_threshold.  When speciate has assigned the     *)
(* genomes, every member of a species is within the threshold of its       *)
(* representative, and the founder of a species created in this call is    *)
(* farther than the threshold from the representative of every other       *)
(* species: the one of the two that was placed later would have joined.    *)
(***************************************************************************)
C14_CompatibleIffWithinThreshold ==
    Speciated =>
        LET new_species == neat.before
            threshold == neat.configuration.compatibility_threshold
        IN /\ \A id \in DOMAIN new_species :
                  \A member \in MembersOf(new_species[id]) :
                      D(member, new_species[id].representative) <= threshold
           /\ \A id \in DOMAIN new_species, other \in DOMAIN new_species :
                  (id # other /\ new_species[id].created = neat.generation)
                      => D(new_species[id].representative,
                           new_species[other].representative) > threshold

\* The species that were stagnant when the removal of stagnated species
\* started, and those of them the call retired.
Stagnant ==
    {id \in DOMAIN neat.before :
        neat.generation - neat.before[id].last_improved
            >= neat.configuration.stagnation_after}

Retired == DOMAIN neat.before \ SpeciesIds

AdjustedFitness(id) == neat.before[id].adjusted_fitness.val

(***************************************************************************)
(* C15: after step 5 of speciate every stagnant species that is kept is    *)
(* among the top elitism_species stagnant species by adjusted fitness      *)
(* (fewer than elitism_species stagnant species have a strictly higher     *)
(* adjusted fitness), and no retired stagnant species has a strictly       *)
(* higher adjusted fitness than a stagnant species that is kept.           *)
(***************************************************************************)
C15_KeptStagnantAreTheTop ==
    Speciated =>
        /\ \A kept \in Stagnant \ Retired :
              Cardinality({id \in Stagnant : Above(AdjustedFitness(id), AdjustedFitness(kept))})
                  < neat.configuration.elitism_species
        /\ \A kept \in Stagnant \ Retired, retired \in Stagnant \cap Retired :
              ~Above(AdjustedFitness(retired), AdjustedFitness(kept))

(***************************************************************************)
(* C16: a speciate call returns, and the species it leaves are at least    *)
(* min(elitism_species, number of species before the stagnation pruning);  *)
(* with fewer than elitism_species species none is retired.                *)
(***************************************************************************)
C16_ElitismSpeciesKept ==
    op.kind = "speciate" =>
        /\ op.res = "ok"
        /\ Cardinality(SpeciesIds)
               >= Min(neat.configuration.elitism_species, Cardinality(DOMAIN neat.before))
        /\ Cardinality(DOMAIN neat.before) < neat.configuration.elitism_species
               => Retired = {}

\* offspring_count of a species of species_set.species()
OffspringCount(id) ==
    FloorTimes(neat.configuration.population_size,
               neat.species_set.species[id].adjusted_fitness.val)

RECURSIVE OffspringBudget(_)
OffspringBudget(ids) ==
    IF ids = {} THEN 0
    ELSE LET id == CHOOSE i \in ids : TRUE
         IN OffspringCount(id) + OffspringBudget(ids \ {id})

(***************************************************************************)
(* C17: in every generation the offspring counts                           *)
(* floor(adjusted_fitness * population_size) of the species speciate       *)
(* leaves add up to population_size, up to the number of those species.    *)
(***************************************************************************)
C17_OffspringBudgetNearPopulationSize ==
    Speciated =>
        Abs(neat.configuration.population_size - OffspringBudget(SpeciesIds))
            <= Cardinality(SpeciesIds)

\* The highest fitness recorded for a genome of the current population.
BestFitness ==
    MaxOf({neat.genomes.fitnesses[id] : id \in DOMAIN neat.genomes.fitnesses})

\* A generation has ended (the offspring have replaced the population and
\* their fitnesses are recorded) with the best fitness at the goal.
GenerationEndedAtGoal ==
    /\ op.kind \in {"reproduce", "get_best"}
    /\ op.kind = "reproduce" => op.res = "ok"
    /\ neat.configuration.fitness_goal.some
    /\ DOMAIN neat.genomes.fitnesses # {}
    /\ BestFitness >= neat.configuration.fitness_goal.val

(***************************************************************************)
(* C18: start runs at most max_generations generations; once a generation  *)
(* ends with the best fitness at or above the configured goal, start is on *)
(* its way out of the loop and its next step is to return: no further      *)
(* generation is run.                                                      *)
(***************************************************************************)
C18_AtMostMaxGenerationsAndStopAtGoal ==
    /\ [](neat.generation <= neat.configuration.max_generations)
    /\ [](GenerationEndedAtGoal => neat.pc = "break")
    /\ [][GenerationEndedAtGoal => neat'.pc = "returned"]_vars

(***************************************************************************)
(* C19: the step that ends start, on a population with recorded            *)
(* fitnesses, returns (network, fitness) where fitness is the highest      *)
(* fitness recorded for a genome of the final population and the network   *)
(* is compiled from a genome of the population that has this fitness, also *)
(* when no fitness is above zero.                                          *)
(***************************************************************************)
C19_ReturnsTheBest ==
    (op.kind = "return" /\ DOMAIN neat.genomes.fitnesses # {}) =>
        /\ neat.pc = "returned"
        /\ neat.result.val.id \in DOMAIN neat.genomes.fitnesses
        /\ neat.result.val.fitness = BestFitness
        /\ neat.genomes.fitnesses[neat.result.val.id] = BestFitness

(***************************************************************************)
(* C20: start refuses a configuration whose population_size is 0 or whose  *)
(* mutation_kinds table is empty: with such a configuration no initial     *)
(* population is created and no generation is run.                         *)
(***************************************************************************)
InvalidConfiguration ==
    /\ neat.pc # "none"
    /\ \/ neat.configuration.population_size = 0
       \/ neat.configuration.mutation_kinds = <<>>

C20_InvalidConfigurationRefused ==
    InvalidConfiguration =>
        /\ neat.pc \notin {"loop", "reproduce", "break", "returned"}
        /\ DOMAIN neat.genomes.genomes = {}
        /\ neat.generation = 0

(***************************************************************************)
(* Network (core/src/network.rs): the phenotype compiled from a genome and *)
(* its forward pass.  An f64 the pass computes is kept as the expression   *)
(* that computes it: Lit(n) for a number of the genome or of the input     *)
(* vector, Apply(f, args) for an operation on f64s, in the order the code  *)
(* applies them.  Equal expressions are equal f64s.                        *)
(***************************************************************************)
Lit(n) == [f |-> "lit", args |-> <<>>, n |-> n]
Apply(f, args) == [f |-> f, args |-> args, n |-> 0]

\* From<&NodeGene> for Node.
Node_from(gene) ==
    [kind |-> gene.kind,
     aggregation |-> AggregationOf(gene),
     activation |-> gene.activation,
     bias |-> gene.bias,
     value |-> None]

\* From<&ConnectionGene> for Connection.
Connection_from(gene) == [from |-> gene.from, to |-> gene.to, weight |-> gene.weight]

\* From<&Genome> for Network; the unwrap of node_order panics on None.
Network_from(G) ==
    LET Enabled(c) == ~c.disabled
        kept == SelectSeq(G.connection_genes, Enabled)
        order == node_order(G)
    IN IF ~order.some THEN [res |-> "panic", network |-> None]
       ELSE [res |-> "ok",
             network |-> Some(
                 [input_count |-> G.inputs,
                  output_count |-> G.outputs,
                  nodes |-> [k \in 1..NodeCount(G) |-> Node_from(G.node_genes[k])],
                  connections |-> [k \in 1..Len(kept) |-> Connection_from(kept[k])],
                  node_calculation_order |-> order.val])]

\* activate(x, kind): the match has no arm for ActivationKind::Input.
activate(x, kind) ==
    IF kind = "Input" THEN None ELSE Some(Apply(kind, <<x>>))

\* aggregate(kind, components).
aggregate(kind, components) == Apply(kind, components)

\* A node whose value is assigned only while it has none.
assign_value_if_unset(node, value) ==
    IF node.value.some THEN node ELSE [node EXCEPT !.value = Some(value)]

\* self.nodes.get_mut(*i).unwrap().value = Some(value).
assign_value(node, value) == [node EXCEPT !.value = Some(value)]

\* The body of the loop of forward_pass for node i: an input node takes
\* inputs[i], another node the activation of its aggregated incoming values
\* plus its bias.  res is "panic" when an unwrap meets None.
forward_step(nodes, connections, i, inputs) ==
    LET node == nodes[i + 1]
        Incoming(c) == c.to = i
        incoming == SelectSeq(connections, Incoming)
        components ==
            [k \in 1..Len(incoming) |->
                Apply("mul", <<nodes[incoming[k].from + 1].value.val,
                               Lit(incoming[k].weight)>>)]
        aggregated == aggregate(node.aggregation, components)
        aggregated_with_bias == Apply("add", <<aggregated, Lit(node.bias)>>)
        activated == activate(aggregated_with_bias, node.activation)
    IN IF node.kind = "Input"
       THEN IF i + 1 > Len(inputs) THEN [res |-> "panic", nodes |-> nodes]
            ELSE [res |-> "ok",
                  nodes |-> [nodes EXCEPT
                                ![i + 1] = assign_value(node, Lit(inputs[i + 1]))]]
       ELSE IF \E k \in 1..Len(incoming) : ~nodes[incoming[k].from + 1].value.some
       THEN [res |-> "panic", nodes |-> nodes]
       ELSE IF ~activated.some THEN [res |-> "panic", nodes |-> nodes]
       ELSE [res |-> "ok",
             nodes |-> [nodes EXCEPT ![i + 1] = assign_value(node, activated.val)]]

\* The loop of forward_pass over node_calculation_order[k..].
RECURSIVE forward_loop(_, _, _, _, _)
forward_loop(nodes, connections, order, k, inputs) ==
    IF k > Len(order) THEN [res |-> "ok", nodes |-> nodes]
    ELSE LET stepped == forward_step(nodes, connections, order[k], inputs)
         IN IF stepped.res # "ok" THEN stepped
            ELSE forward_loop(stepped.nodes, connections, order, k + 1, inputs)

\* Network::forward_pass: the nodes it leaves and the output vector, the
\* values of the Output nodes in the order of the nodes.
forward_pass(self, inputs) ==
    LET looped == forward_loop(self.nodes, self.connections,
                               self.node_calculation_order, 1, inputs)
        IsOutput(node) == node.kind = "Output"
        outputs == SelectSeq(looped.nodes, IsOutput)
    IN IF looped.res # "ok" THEN [res |-> "panic", nodes |-> looped.nodes, outputs |-> <<>>]
       ELSE IF \E k \in 1..Len(outputs) : ~outputs[k].value.some
       THEN [res |-> "panic", nodes |-> looped.nodes, outputs |-> <<>>]
       ELSE [res |-> "ok", nodes |-> looped.nodes,
             outputs |-> [k \in 1..Len(outputs) |-> outputs[k].value.val]]

(***************************************************************************)
(* A network in use: a genome is built by mutations, compiled once, and    *)
(* the network then runs forward passes on input vectors of every length   *)
(* up to one above input_count.  h is the genome the network was compiled  *)
(* from; op keeps the input vector of the last pass, its outputs and the   *)
(* node values the pass found.                                             *)
(***************************************************************************)
\* Entries an input vector may have beyond input_count.
MaxExtraInputs == 1

InputValues == {0, 1}

InputVectors(input_count) ==
    UNION {[1..len -> InputValues] : len \in 0..(input_count + MaxExtraInputs)}

NetworkProfiles ==
    {Structural(2, 1, MaxHiddenWide), Structural(1, 2, MaxHiddenWide),
     Valued(1, 1, MaxHiddenWide)}

InitNetwork ==
    /\ profile \in NetworkProfiles
    /\ g \in NewGenomes(profile)
    /\ h = g
    /\ child = GenomeEmpty(0, 0)
    /\ op = [kind |-> "new", res |-> "ok", x |-> 0, y |-> 0]
    /\ neat = NoEngine
    /\ network = None

\* The genome changes until it is compiled.
Evolve ==
    /\ ~network.some
    /\ mutate

\* Network::from(&g).
Compile ==
    /\ Running
    /\ ~network.some
    /\ LET compiled == Network_from(g)
       IN /\ network' = compiled.network
          /\ op' = [kind |-> "from", res |-> compiled.res, x |-> 0, y |-> 0]
    /\ h' = g
    /\ UNCHANGED <<g, child, profile, neat>>

\* network.forward_pass(inputs).
ForwardPass ==
    /\ Running
    /\ network.some
    /\ \E inputs \in InputVectors(network.val.input_count) :
          LET passed == forward_pass(network.val, inputs)
          IN /\ network' = Some([network.val EXCEPT !.nodes = passed.nodes])
             /\ op' = [kind |-> "forward_pass", res |-> passed.res, x |-> 0, y |-> 0,
                       inputs |-> inputs, outputs |-> passed.outputs,
                       found |-> network.val.nodes]
    /\ UNCHANGED <<g, h, child, profile, neat>>

NextNetwork == Evolve \/ Compile \/ ForwardPass

SpecNetwork == InitNetwork /\ [][NextNetwork]_vars

(***************************************************************************)
(* C21: a forward pass on an input vector whose length differs from        *)
(* input_count, shorter or longer, fails instead of returning outputs.     *)
(***************************************************************************)
C21_WrongInputLengthFails ==
    (op.kind = "forward_pass" /\ Len(op.inputs) # network.val.input_count) =>
        op.res = "panic"

(***************************************************************************)
(* C22: the outputs of a forward pass are those a network newly compiled   *)
(* from the same genome returns for the same input vector, whatever values *)
(* earlier passes left in the nodes.                                       *)
(***************************************************************************)
C22_OutputsDependOnGenomeAndInputs ==
    (op.kind = "forward_pass" /\ op.res = "ok") =>
        LET fresh == forward_pass(Network_from(h).network.val, op.inputs)
        IN /\ fresh.res = "ok"
           /\ op.outputs = fresh.outputs

\* A pass that returned after it replaced the value an earlier pass had left
\* in a hidden node by another one.
C22_Witness ==
    /\ op.kind = "forward_pass"
    /\ op.res = "ok"
    /\ \E k \in 1..Len(op.found) :
          /\ op.found[k].kind = "Hidden"
          /\ op.found[k].value.some
          /\ op.found[k].value.val # network.val.nodes[k].value.val

(***************************************************************************)
(* C23: for two nodes of which `from` has a distance from the inputs,      *)
(* can_connect(from, to) is true exactly when `from` is no Output node,    *)
(* `to` is no Input node, the distance of `from` is at most that of `to`   *)
(* (a node without a distance counts as farthest), and no path of one or   *)
(* more enabled connections leads from `from` to `to`.                     *)
(***************************************************************************)
C23_CanConnectIffFourConditions ==
    LET distances == calculate_node_distance_from_inputs(g)
    IN \A from \in 0..(NodeCount(g) - 1), to \in 0..(NodeCount(g) - 1) :
          (~distances.diverged /\ distances.d[from] # Absent) =>
              (can_connect(g, from, to) = "true" <=>
                  /\ KindOf(g, from) # "Output"
                  /\ KindOf(g, to) # "Input"
                  /\ distances.d[to] = Absent \/ distances.d[from] <= distances.d[to]
                  /\ ~EnabledPath(g, from, to))

(***************************************************************************)
(* node_order_with called on the genomes the methods of Genome build: the  *)
(* additional connections are none or one new connection gene between two  *)
(* nodes of the genome.  op keeps them and the order returned.             *)
(***************************************************************************)
OrderProfiles == {Structural(1, 1, MaxHidden), Structural(2, 1, MaxHiddenWide)}

AdditionalConnections(G) ==
    {<<>>} \cup {<<ConnectionGeneNew(from, to, 0)>> :
                    from \in 0..(NodeCount(G) - 1), to \in 0..(NodeCount(G) - 1)}

InitOrder ==
    /\ profile \in OrderProfiles
    /\ g \in NodeOnlyGenomes(profile)
    /\ h = g
    /\ child = GenomeEmpty(0, 0)
    /\ op = [kind |-> "new", res |-> "ok", x |-> 0, y |-> 0]
    /\ neat = NoEngine
    /\ network = None

\* g.node_order_with(additional_connections); node_order() is the call
\* without additional connections.
CallNodeOrderWith ==
    /\ Running
    /\ op.kind # "node_order_with"
    /\ \E additional_connections \in AdditionalConnections(g) :
          LET order == node_order_with(g, additional_connections)
          IN op' = [kind |-> "node_order_with",
                    res |-> IF order.some THEN "Some" ELSE "None",
                    x |-> 0, y |-> 0,
                    additional_connections |-> additional_connections,
                    order |-> order.val]
    /\ UNCHANGED <<g, h, child, profile, neat, network>>

\* The genome is built by the methods of Genome and then queried.
Build ==
    /\ op.kind # "node_order_with"
    /\ NextApi

NextOrder == Build \/ CallNodeOrderWith

SpecOrder == InitOrder /\ [][NextOrder]_vars

\* The place of node i in an order that lists it.
PlaceIn(order, i) == CHOOSE k \in 1..Len(order) : order[k] = i

\* The enabled connection genes of G.
EnabledGenes(G) ==
    {G.connection_genes[k] : k \in {j \in 1..ConnCount(G) : ~G.connection_genes[j].disabled}}

(***************************************************************************)
(* C24: an order that node_order or node_order_with returns lists every    *)
(* node of the genome exactly once, every Input node before every other    *)
(* node, and the source of every enabled connection and of every           *)
(* additional connection before its target.                                *)
(***************************************************************************)
C24_NodeOrderIsTopological ==
    (op.kind = "node_order_with" /\ op.res = "Some") =>
        LET order == op.order
            nodes == 0..(NodeCount(g) - 1)
            edges == EnabledGenes(g) \cup
                         {op.additional_connections[k] :
                             k \in 1..Len(op.additional_connections)}
        IN /\ Len(order) = NodeCount(g)
           /\ \A i \in nodes : \E k \in 1..Len(order) : order[k] = i
           /\ \A i, j \in nodes :
                 (KindOf(g, i) = "Input" /\ KindOf(g, j) # "Input") =>
                     PlaceIn(order, i) < PlaceIn(order, j)
           /\ \A c \in edges : PlaceIn(order, c.from) < PlaceIn(order, c.to)

(***************************************************************************)
(* C25: every species a speciate call creates has an id above the id of    *)
(* every species the set held when the call began, also when the call      *)
(* deleted the species of the highest id before it created the new one.    *)
(***************************************************************************)
C25_SpeciesIdsOnlyGrow ==
    [][op'.kind = "speciate" =>
          \A id \in DOMAIN neat'.before :
              neat'.before[id].created = neat'.generation =>
                  \A held \in DOMAIN neat.species_set.species : id > held]_vars

(***************************************************************************)
(* C26: when reproduction starts, every species with at least one member   *)
(* has at least one survivor after the truncation to the survival_ratio    *)
(* share (the configurations all have a survival_ratio in (0, 1]).         *)
(***************************************************************************)
C26_SomeSurvivor ==
    Speciated =>
        \A id \in SpeciesIds :
            LET species == neat.species_set.species[id]
            IN Len(species.members) >= 1 =>
                   Len(Survivors(neat.configuration, neat.genomes, species)) >= 1

(***************************************************************************)
(* C27: when reproduction starts, the elite count of every species is at   *)
(* most the number of its survivors, and reproduction does not fail on an  *)
(* elite slot.                                                             *)
(***************************************************************************)
C27_ElitesAmongSurvivors ==
    Speciated =>
        \A id \in SpeciesIds :
            LET species == neat.species_set.species[id]
            IN ElitesCount(neat.configuration, species)
                   <= Len(Survivors(neat.configuration, neat.genomes, species))

(***************************************************************************)
(* The mutation operators against the genome they started from, as the     *)
(* tests of mutation.rs observe them: h is the genome as it was            *)
(* (g.clone()) right before g.mutate(kind).                                *)
(***************************************************************************)
FrameProfiles ==
    {Structural(1, 1, MaxHidden), Structural(2, 1, MaxHiddenWide),
     Structural(1, 2, MaxHiddenWide), Weighted(1, 1, MaxHiddenWide)}

InitFrame ==
    /\ profile \in FrameProfiles
    /\ g \in NewGenomes(profile)
    /\ h = g
    /\ child = GenomeEmpty(0, 0)
    /\ op = [kind |-> "new", res |-> "ok", x |-> 0, y |-> 0]
    /\ neat = NoEngine
    /\ network = None

\* g.mutate(kind) on the genome just cloned (let before = g.clone()).
MutateCloned == op.kind = "clone" /\ mutate

NextFrame == Clone \/ MutateCloned

SpecFrame == InitFrame /\ [][NextFrame]_vars

\* The operation that ended in the state is g.mutate(kind) and returned.
Returned(kind) == op.kind = kind /\ op.res = "ok"

EnabledCount(G) == Len(enabled_connections(G))

(***************************************************************************)
(* C28: RemoveConnection orphans no node: a node with an enabled outgoing  *)
(* connection before keeps one, a node with an enabled incoming connection *)
(* before keeps one, and when no connection is eligible the number of      *)
(* enabled connections is unchanged.                                       *)
(***************************************************************************)
C28_RemoveConnectionOrphansNoNode ==
    op.kind = "RemoveConnection" =>
        /\ op.res = "ok"
        /\ NodeCount(g) = NodeCount(h)
        /\ \A i \in 0..(NodeCount(h) - 1) :
              /\ outgoing_count(h, i) >= 1 => outgoing_count(g, i) >= 1
              /\ incoming_count(h, i) >= 1 => incoming_count(g, i) >= 1
        /\ Len(eligible_indexes(h)) = 0 => EnabledCount(g) = EnabledCount(h)

\* RemoveConnection has disabled a connection of the genome.
C28_Witness ==
    /\ Returned("RemoveConnection")
    /\ EnabledCount(g) = EnabledCount(h) - 1

(***************************************************************************)
(* C29: AddNode on a genome with an enabled connection returns, and there  *)
(* is an enabled connection c = (u -> v, w) of the genome before such      *)
(* that c is now disabled and otherwise the same, every other connection   *)
(* gene and every node gene of before is unchanged, and exactly one node,  *)
(* of kind Hidden, and exactly two connection genes are appended: enabled  *)
(* u -> h with weight w and enabled h -> v.                                *)
(***************************************************************************)
C29_AddNodeFrame ==
    (op.kind = "AddNode" /\ EnabledCount(h) >= 1) =>
        /\ op.res = "ok"
        /\ NodeCount(g) = NodeCount(h) + 1
        /\ SubSeq(g.node_genes, 1, NodeCount(h)) = h.node_genes
        /\ KindOf(g, NodeCount(h)) = "Hidden"
        /\ ConnCount(g) = ConnCount(h) + 2
        /\ \E k \in 1..ConnCount(h) :
              LET c == h.connection_genes[k]
                  new == NodeCount(h)
                  first == g.connection_genes[ConnCount(h) + 1]
                  second == g.connection_genes[ConnCount(h) + 2]
              IN /\ ~c.disabled
                 /\ g.connection_genes[k] = [c EXCEPT !.disabled = TRUE]
                 /\ \A j \in 1..ConnCount(h) :
                       j # k => g.connection_genes[j] = h.connection_genes[j]
                 /\ first.from = c.from /\ first.to = new
                 /\ first.weight = c.weight /\ ~first.disabled
                 /\ second.from = new /\ second.to = c.to /\ ~second.disabled

\* AddNode has split a connection of weight 1, and the gene out of the new
\* node drew the weight 0.
C29_Witness ==
    /\ Returned("AddNode")
    /\ ConnCount(g) = ConnCount(h) + 2
    /\ g.connection_genes[ConnCount(h) + 1].weight = 1
    /\ g.connection_genes[ConnCount(h) + 2].weight = 0

\* Some enabled connection gene of G goes from node a to node b.
EnabledEdge(G, a, b) ==
    \E k \in 1..ConnCount(G) :
        LET c == G.connection_genes[k]
        IN c.from = a /\ c.to = b /\ ~c.disabled

\* The nodes RemoveNode may pick in G.
Removable(G) == {hidden_nodes(G)[k] : k \in 1..Len(hidden_nodes(G))}

(***************************************************************************)
(* C30: RemoveNode on a genome with a removable hidden node returns, and   *)
(* for the node n it picked: every connection gene incident to n is        *)
(* disabled; every pair (pred, succ) with enabled connections pred -> n    *)
(* and n -> succ before has an enabled connection pred -> succ; the        *)
(* number of node genes and the (from, to) of every connection gene of     *)
(* before are unchanged.                                                   *)
(***************************************************************************)
C30_RemoveNodeFrame ==
    (op.kind = "RemoveNode" /\ Removable(h) # {}) =>
        /\ op.res = "ok"
        /\ NodeCount(g) = NodeCount(h)
        /\ ConnCount(g) >= ConnCount(h)
        /\ \A k \in 1..ConnCount(h) :
              /\ g.connection_genes[k].from = h.connection_genes[k].from
              /\ g.connection_genes[k].to = h.connection_genes[k].to
        /\ \E n \in Removable(h) :
              /\ \A k \in 1..ConnCount(g) :
                    LET c == g.connection_genes[k]
                    IN (c.from = n \/ c.to = n) => c.disabled
              /\ \A pred \in 0..(NodeCount(h) - 1), succ \in 0..(NodeCount(h) - 1) :
                    (EnabledEdge(h, pred, n) /\ EnabledEdge(h, n, succ))
                        => EnabledEdge(g, pred, succ)

\* RemoveNode has enabled again a gene that was disabled before, as when it
\* undoes AddNode.
C30_Witness ==
    /\ Returned("RemoveNode")
    /\ Removable(h) # {}
    /\ \E k \in 1..ConnCount(h) :
          h.connection_genes[k].disabled /\ ~g.connection_genes[k].disabled

====
